---- MODULE Spec2Model ----
(***************************************************************************)
(* State-machine model of the synthetic SaaS data simulator                *)
(* (forecasting/sim/src/simulate.py and its five generators) and of the    *)
(* realism validator (forecasting/sim/src/validate_simulation.py).         *)
(*                                                                         *)
(* Numbers: probabilities and the unit interval are in per-mille           *)
(* (0.52 is 520); a date string 'YYYY-MM-01' is the integer YYYYMM, a      *)
(* pandas Timestamp of a month start is the absolute month number          *)
(* year*12 + month-1.  A random source is a record [entropy, seed, pos];   *)
(* a seeded source yields Bits(seed, pos), an entropy-seeded one yields    *)
(* any sample.  Columns that no property reads (quantity, price, discount, *)
(* billing, region, industry, usage counts) and the draws that feed only   *)
(* those columns are left out.                                             *)
(***************************************************************************)
EXTENDS Integers, Sequences, FiniteSets, TLC

VARIABLES
  config,            \* the configuration source: [exists, body]
  pc,                \* position of simulate.run
  err,               \* exception that ended simulate.run ("" while none)
  srcs,              \* every numpy Generator constructed so far, in order
  rng,               \* run's local `rng`: index into srcs (0 before line 89)
  g_rng,             \* the current generator's local `rng`: index into srcs
  calls,             \* generator calls made by run: <<[gen, rng]>>
  calendar_dates,    \* run's calendar: sequence of date strings
  products_df, customers_df, latents, subscriptions_df, usage_df, pipeline_df,
  rows,              \* the running generator's local `rows` list
  sub,               \* locals of generate_subscriptions
  usg,               \* locals of generate_usage
  pipe,              \* locals of generate_pipeline
  files,             \* the parquet files under base_path: name -> table
  runs,              \* how many executions of simulate.run have started
  prev_files,        \* the files as the previous execution left them
  val                \* locals of run_validation

vars == <<config, pc, err, srcs, rng, g_rng, calls, calendar_dates,
          products_df, customers_df, latents, subscriptions_df, usage_df,
          pipeline_df, rows, sub, usg, pipe, files, runs, prev_files, val>>

-----------------------------------------------------------------------------
(* Bounds of the model *)

RawN == 3            \* samples of the unit interval an entropy source explores
NSeeds == 12
RunMonths == 3       \* horizon of the whole-run specification

RawSamples == {(k * 1000) \div RawN : k \in 0..(RawN - 1)}
Seeds == 0..(NSeeds - 1)

-----------------------------------------------------------------------------
(* Program constants *)

SEGMENTS == <<"enterprise", "large", "medium", "smb">>
FAMILIES == <<"a", "b", "c", "d">>
TABLES == <<"products", "customers", "subscription_line_items",
            "usage_monthly", "pipeline_opportunities_snapshot">>
GENERATORS == <<"products", "customers", "subscriptions", "usage", "pipeline">>
DEFAULT_SEED == 42
NoRng == 0           \* rng=None in a generator signature
NoSeed == -1         \* random_seed: null
Missing == [exists |-> FALSE, table |-> <<>>]   \* a file that does not exist
STAGE_ORDER == <<"prospecting", "discovery", "proposal", "negotiation",
                 "closed_won", "closed_lost">>
NoCustomer == 0      \* customer_id None of a new-business opportunity
NoChurn == -1        \* churn_month_by_customer.get(cid) is None

-----------------------------------------------------------------------------
(* Sequences *)

Range(s) == {s[i] : i \in DOMAIN s}
Last(s) == s[Len(s)]
Min2(a, b) == IF a < b THEN a ELSE b
Max2(a, b) == IF a > b THEN a ELSE b
Clip(x, lo, hi) == Max2(lo, Min2(x, hi))

RECURSIVE SumSeq(_)
SumSeq(s) == IF s = <<>> THEN 0 ELSE s[1] + SumSeq(Tail(s))

RECURSIVE SelectIdx(_, _, _)
\* the indices i of 1..n, ascending, for which keep[i]
SelectIdx(keep, i, n) ==
  IF i > n THEN <<>>
  ELSE (IF keep[i] THEN <<i>> ELSE <<>>) \o SelectIdx(keep, i + 1, n)

-----------------------------------------------------------------------------
(* Dates: strftime("%Y-%m-%d") of a month start, and pd.Timestamp of it *)

Strftime(ts) == (ts \div 12) * 100 + (ts % 12) + 1
Timestamp(str) == (str \div 100) * 12 + (str % 100) - 1

\* _month_calendar: date_range(start, periods=months, freq="MS") as strings
MonthCalendar(cfg) ==
  [m \in 1..cfg.months |-> Strftime(Timestamp(cfg.start_month) + (m - 1))]

-----------------------------------------------------------------------------
(* Random sources *)

\* stand-in for the PCG64 bit stream of a seeded Generator: a fixed function
\* of (seed, position) into the unit interval (per-mille)
Bits(seed, pos) ==
  LET a == (seed * 131 + pos * 71 + 17) % 1009
      b == (a * a + 7 * pos + 3 * seed + 1) % 1013
      c == (b * b + a + 11 * pos) % 1009
  IN c % 1000

\* np.random.default_rng(seed): a seed of None (random_seed: null in the
\* YAML source) takes fresh entropy from the operating system
DefaultRng(seed) ==
  IF seed = NoSeed THEN [entropy |-> TRUE, seed |-> 0, pos |-> 0]
  ELSE [entropy |-> FALSE, seed |-> seed, pos |-> 0]

\* the next k raw draws a source can yield
DrawSeqs(src, k) ==
  IF src.entropy THEN [1..k -> RawSamples]
  ELSE {[i \in 1..k |-> Bits(src.seed, src.pos + i - 1)]}

\* draws past the `used` ones are not made: fix them so that one outcome is
\* one transition
Unused(src, d, used) == src.entropy => \A i \in (used + 1)..Len(d) : d[i] = 0

Random(raw) == raw                                   \* rng.random()
Uniform(lo, hi, raw) == lo + ((hi - lo) * raw) \div 1000   \* rng.uniform(lo, hi)
Integers(lo, hi, raw) == lo + ((hi - lo) * raw) \div 1000  \* rng.integers(lo, hi)
Choice(list, raw) == list[1 + (Len(list) * raw) \div 1000] \* rng.choice(list)

\* rng.normal(0, 1) by quantile, in thousandths of a standard deviation
NormalQ(raw) ==
  CASE raw < 159 -> -1000
    [] raw < 500 -> -300
    [] raw < 841 -> 300
    [] OTHER -> 1000

\* np.round: to the nearest integer, halves to even (v in thousandths)
RoundHalfEven(v) ==
  LET q == v \div 1000
      r == v % 1000
  IN IF r < 500 THEN q
     ELSE IF r > 500 THEN q + 1
     ELSE IF q % 2 = 0 THEN q ELSE q + 1

-----------------------------------------------------------------------------
(* Configuration *)

StartMonthDefault == 202401

\* a configuration as the YAML source gives it; the term and lag lists, the
\* horizon and the customer count are small so that whole runs stay small
BaseConfig ==
  [exists |-> TRUE,
   random_seed |-> DEFAULT_SEED,
   format |-> "parquet",
   start_month |-> StartMonthDefault,
   months |-> RunMonths,
   n_customers_total |-> 1,
   segment_mix |-> [s \in Range(SEGMENTS) |-> 250],
   churn_targets_by_segment |->
     [s \in Range(SEGMENTS) |->
        CASE s = "enterprise" -> 50 [] s = "large" -> 100
          [] s = "medium" -> 150 [] OTHER -> 250],
   el_terms |-> <<2, 3>>, el_lags |-> <<1, 2>>,
   ms_terms |-> <<1, 2>>, ms_lags |-> <<0, 1>>,
   opps_per_month_per_100_customers |-> 100,
   slippage |-> [g \in {"enterprise", "mid_smb"} |->
                  [st \in {"discovery", "proposal", "negotiation"} |->
                     IF st = "discovery" THEN 0 ELSE 10]],
   stage_names |-> STAGE_ORDER,
   contradictory_signal_rate |-> 80,
   features |-> <<"feature_a">>]

-----------------------------------------------------------------------------
(* simulate.run, lines 86-98 *)

NoSub == [i |-> 0, looping |-> FALSE, start_idx |-> 0, term_months |-> 0,
          base_churn |-> 0, product_ids |-> <<>>, contract_counter |-> 0]
NoUsg == [customer_months |-> <<>>, churn_month_by_customer |-> <<>>, k |-> 0]
NoPipe == [m |-> 0, j |-> 0, open_opps |-> <<>>, still_open |-> <<>>,
           opp_counter |-> 0, spawned |-> <<>>]
NoVal == [pc |-> "idle", loaded |-> FALSE, log |-> <<>>, all_fails |-> <<>>,
          exit |-> -1, err |-> ""]
NoFiles == [t \in Range(TABLES) |-> Missing]

genVars == <<products_df, customers_df, latents, subscriptions_df, usage_df,
             pipeline_df, rows, sub, usg, pipe>>
runVars == <<config, runs, prev_files, val>>

RaiseSwallowed(e) == pc' = "persist_1" /\ err' = e

\* an exception leaves run: nothing in run catches it
Raise(e) == pc' = "raised" /\ err' = e

\* line 87: load_config raises when the source does not exist
LoadConfig ==
  /\ pc = "load_config"
  /\ IF config.exists THEN pc' = "rng" /\ err' = err
     ELSE Raise("FileNotFoundError")
  /\ UNCHANGED <<srcs, rng, g_rng, calls, calendar_dates, files>>
  /\ UNCHANGED genVars /\ UNCHANGED runVars

\* the Generator a run constructs from the configured seed
SeedRngPerRun(seed) == DefaultRng(seed + runs)

SeedRng(seed) == DefaultRng(seed)

\* lines 88-89
MakeRng ==
  /\ pc = "rng"
  /\ srcs' = Append(srcs, SeedRng(config.random_seed))
  /\ rng' = Len(srcs) + 1
  /\ pc' = "format"
  /\ UNCHANGED <<err, g_rng, calls, calendar_dates, files>>
  /\ UNCHANGED genVars /\ UNCHANGED runVars

FormatOkAny(fmt) == TRUE

FormatOk(fmt) == fmt = "parquet"

\* lines 91-95
CheckFormat ==
  /\ pc = "format"
  /\ IF FormatOk(config.format) THEN pc' = "calendar" /\ err' = err
     ELSE Raise("ValueError: Unsupported output format")
  /\ UNCHANGED <<srcs, rng, g_rng, calls, calendar_dates, files>>
  /\ UNCHANGED genVars /\ UNCHANGED runVars

\* lines 97-98
Calendar ==
  /\ pc = "calendar"
  /\ calendar_dates' = MonthCalendar(config)
  /\ pc' = "products"
  /\ UNCHANGED <<err, srcs, rng, g_rng, calls, files>>
  /\ UNCHANGED genVars /\ UNCHANGED runVars

months == Len(calendar_dates)

-----------------------------------------------------------------------------
(* Calling a generator: run passes its rng; a generator given rng=None     *)
(* constructs its own from the configured seed                             *)

RunRngArgNoneForUsage(gen) == IF gen = "usage" THEN NoRng ELSE rng

\* the rng= argument of the call of generator gen in run
RunRngArg(gen) == rng

Enter(gen) ==
  LET arg == RunRngArg(gen)
      own == arg = NoRng
  IN /\ srcs' = IF own THEN Append(srcs, DefaultRng(config.random_seed)) ELSE srcs
     /\ g_rng' = IF own THEN Len(srcs) + 1 ELSE arg
     /\ calls' = Append(calls, [gen |-> gen, rng |-> IF own THEN Len(srcs) + 1 ELSE arg])

Src == srcs[g_rng]
Consume(k) == srcs' = [srcs EXCEPT ![g_rng].pos = @ + k]

-----------------------------------------------------------------------------
(* generate_products *)

CallProducts ==
  /\ pc = "products"
  /\ Enter("products")
  /\ rows' = <<>>
  /\ pc' = "products_body"
  /\ UNCHANGED <<err, rng, calendar_dates, files, products_df, customers_df,
                 latents, subscriptions_df, usage_df, pipeline_df, sub, usg, pipe>>
  /\ UNCHANGED runVars

ProductRowsAddOnPerFamily(d) ==
  [pid \in 1..8 |->
     IF pid % 2 = 1
     THEN [product_id |-> pid, product_family |-> FAMILIES[(pid + 1) \div 2],
           is_recurring |-> TRUE,
           default_term_months |-> Choice(<<12, 24>>, d[(pid + 1) \div 2])]
     ELSE [product_id |-> pid, product_family |-> FAMILIES[pid \div 2],
           is_recurring |-> FALSE, default_term_months |-> 12]]

\* lines 13-35: one recurring product per family, an add-on after family d
ProductRows(d) ==
  [pid \in 1..5 |->
     IF pid <= 4
     THEN [product_id |-> pid, product_family |-> FAMILIES[pid],
           is_recurring |-> TRUE,
           default_term_months |-> Choice(<<12, 24>>, d[pid])]
     ELSE [product_id |-> pid, product_family |-> "d",
           is_recurring |-> FALSE, default_term_months |-> 12]]

GenProducts ==
  /\ pc = "products_body"
  /\ \E d \in DrawSeqs(Src, 4) :
       /\ products_df' = ProductRows(d)
       /\ Consume(4)
  /\ pc' = "customers"
  /\ UNCHANGED <<err, rng, g_rng, calls, calendar_dates, files, customers_df,
                 latents, subscriptions_df, usage_df, pipeline_df, rows, sub,
                 usg, pipe>>
  /\ UNCHANGED runVars

-----------------------------------------------------------------------------
(* generate_customers *)

CallCustomers ==
  /\ pc = "customers"
  /\ Enter("customers")
  /\ rows' = <<>>
  /\ pc' = "customers_body"
  /\ UNCHANGED <<err, rng, calendar_dates, files, products_df, customers_df,
                 latents, subscriptions_df, usage_df, pipeline_df, sub, usg, pipe>>
  /\ UNCHANGED runVars

\* line 30: rng.choice(SEGMENTS, p=probs): the first segment whose cumulative
\* normalised weight exceeds the uniform draw
SegmentOf(mix, raw) ==
  LET w(seg) == IF seg \in DOMAIN mix THEN mix[seg] ELSE 250    \* mix.get(s, 0.25)
      cum == [k \in 1..4 |-> SumSeq([j \in 1..k |-> w(SEGMENTS[j])])]
      idx == Cardinality({k \in 1..4 : cum[k] * 1000 <= raw * cum[4]})
  IN SEGMENTS[Min2(idx + 1, 4)]

\* lines 45-48: the CRM score from the latent health h and the noise draw
CrmLinear(h, raw) ==
  Clip(RoundHalfEven(h * 9 + 1000 + (NormalQ(raw) * 800) \div 1000), 1, 10)

CrmInvertedInclusive(h, rawLow, rawHigh) ==
  IF h >= 500 THEN Integers(1, 5, rawLow) ELSE Integers(6, 11, rawHigh)

\* lines 54-58: the contradictory score
CrmInverted(h, rawLow, rawHigh) ==
  IF h >= 500 THEN Integers(1, 4, rawLow) ELSE Integers(7, 11, rawHigh)

\* lines 25-78 for n customers from the draws d, column by column:
\* segments, created months, latent health, noise, contradiction flags, then
\* the two inversion arrays over the contradicted customers
CustomersFrom(cfg, cal, n, d) ==
  LET seg == [i \in 1..n |-> SegmentOf(cfg.segment_mix, d[i])]
      created == [i \in 1..n |-> Integers(0, Len(cal), d[n + i])]
      health == [i \in 1..n |-> Uniform(200, 950, d[2 * n + i])]
      linear == [i \in 1..n |-> CrmLinear(health[i], d[3 * n + i])]
      contra == [i \in 1..n |-> Random(d[4 * n + i]) < cfg.contradictory_signal_rate]
      idx == SelectIdx(contra, 1, n)
      k == Len(idx)
      rank == [i \in 1..n |-> Cardinality({j \in 1..k : idx[j] <= i})]
      crm == [i \in 1..n |->
                IF contra[i]
                THEN CrmInverted(health[i], d[5 * n + rank[i]], d[5 * n + k + rank[i]])
                ELSE linear[i]]
  IN [df |-> [i \in 1..n |->
                [customer_id |-> i, segment |-> seg[i],
                 crm_health_input |-> crm[i],
                 created_date |-> cal[created[i] + 1]]],
      latents |-> [latent_health |-> health, created_month_index |-> created],
      used |-> 5 * n + 2 * k]

GenCustomers ==
  /\ pc = "customers_body"
  /\ LET n == config.n_customers_total IN
       IF n > 0 /\ months = 0
       THEN \* line 31: rng.choice(0, size=n) raises
            /\ Raise("ValueError: a must be a positive integer")
            /\ Consume(n)
            /\ UNCHANGED <<customers_df, latents>>
       ELSE \E d \in DrawSeqs(Src, 7 * n) :
              LET c == CustomersFrom(config, calendar_dates, n, d) IN
                /\ Unused(Src, d, c.used)
                /\ customers_df' = c.df
                /\ latents' = c.latents
                /\ Consume(c.used)
                /\ pc' = "subscriptions" /\ err' = err
  /\ UNCHANGED <<rng, g_rng, calls, calendar_dates, files, products_df,
                 subscriptions_df, usage_df, pipeline_df, rows, sub, usg, pipe>>
  /\ UNCHANGED runVars


-----------------------------------------------------------------------------
(* generate_subscriptions *)

\* list[k] as Python indexes it (0-based, negative from the end)
PyIndex(list, k) == IF k < 0 THEN list[Len(list) + k + 1] ELSE list[k + 1]

\* x^n in per-mille fixed point
RECURSIVE Pow(_, _)
Pow(x, n) == IF n = 0 THEN 1000 ELSE (Pow(x, n - 1) * x) \div 1000

\* the largest y of lo..hi with y^n <= x (per-mille), by bisection
RECURSIVE Root(_, _, _, _)
Root(x, n, lo, hi) ==
  IF lo >= hi THEN lo
  ELSE LET mid == (lo + hi + 1) \div 2
       IN IF Pow(mid, n) <= x THEN Root(x, n, mid, hi) ELSE Root(x, n, lo, mid - 1)

AnnualApplied(annual_churn, term_months) == annual_churn

\* lines 21-25: 1 - (1 - annual)^(term/12), per-mille
AnnualToPerRenewal(annual_churn, term_months) ==
  IF term_months <= 0 THEN 0
  ELSE IF term_months % 12 = 0
       THEN 1000 - Pow(1000 - annual_churn, term_months \div 12)
       ELSE IF 12 % term_months = 0
       THEN 1000 - Root(1000 - annual_churn, 12 \div term_months, 0, 1000)
       ELSE 1000 - Pow(Root(1000 - annual_churn, 12, 0, 1000), term_months)

IsEL(seg) == seg \in {"enterprise", "large"}

\* lines 13-18
SegmentBehavior(cfg, seg) ==
  IF IsEL(seg)
  THEN [term_months |-> cfg.el_terms, onboarding_lag |-> cfg.el_lags]
  ELSE [term_months |-> cfg.ms_terms, onboarding_lag |-> cfg.ms_lags]

\* lines 42-47: the first recurring product of each family, families sorted
FamilyToPid(products) ==
  LET fams == SelectIdx([k \in 1..4 |->
                  \E r \in 1..Len(products) :
                     products[r].is_recurring /\ products[r].product_family = FAMILIES[k]],
                1, 4)
  IN [k \in 1..Len(fams) |->
        LET first == CHOOSE r \in 1..Len(products) :
                       /\ products[r].is_recurring
                       /\ products[r].product_family = FAMILIES[fams[k]]
                       /\ \A q \in 1..(r - 1) :
                            ~(products[q].is_recurring
                              /\ products[q].product_family = FAMILIES[fams[k]])
        IN products[first].product_id]

CallSubscriptions ==
  /\ pc = "subscriptions"
  /\ Enter("subscriptions")
  /\ rows' = <<>>
  /\ sub' = NoSub
  /\ pc' = "subs_customer"
  /\ UNCHANGED <<err, rng, calendar_dates, files, products_df, customers_df,
                 latents, subscriptions_df, usage_df, pipeline_df, usg, pipe>>
  /\ UNCHANGED runVars

\* line 90: the number of families (a draw except for smb)
NFamilies(seg, raw) ==
  IF IsEL(seg) THEN Integers(1, 4, raw)
  ELSE IF seg = "medium" THEN Integers(1, 3, raw) ELSE 1

\* lines 91-93: k distinct products; the permutation is taken as a rotation
ChosenProducts(pids, k, raw) ==
  LET n == Len(pids)
      first == Integers(0, n, raw)
  IN [j \in 1..Min2(k, n) |-> pids[((first + j - 1) % n) + 1]]

ClampStartBeforeLast(start, n_months) == Max2(0, Min2(start, n_months - 2))

\* line 98: the first start index is kept inside the calendar
ClampStart(start, n_months) == Max2(0, Min2(start, n_months - 1))

\* lines 87-105 for customer sub.i (0-based)
SubsCustomer ==
  /\ pc = "subs_customer"
  /\ sub.i < Len(customers_df)
  /\ LET seg == customers_df[sub.i + 1].segment
         beh == SegmentBehavior(config, seg)
         nf == IF seg = "smb" THEN 0 ELSE 1     \* draws made for n_families
     IN IF beh.onboarding_lag = <<>> \/ beh.term_months = <<>>
        THEN \* rng.choice of an empty list raises
             /\ Raise("ValueError: a cannot be empty")
             /\ Consume(IF beh.onboarding_lag = <<>> THEN nf + 1 ELSE nf + 2)
             /\ UNCHANGED sub
        ELSE \E d \in DrawSeqs(Src, nf + 3) :
               LET lag == Choice(beh.onboarding_lag, d[nf + 2])
                   term == Choice(beh.term_months, d[nf + 3])
                   start == latents.created_month_index[sub.i + 1] + lag
                   annual == IF seg \in DOMAIN config.churn_targets_by_segment
                             THEN config.churn_targets_by_segment[seg]
                             ELSE 100
               IN /\ sub' = [sub EXCEPT
                        !.looping = TRUE,
                        !.product_ids = ChosenProducts(FamilyToPid(products_df),
                                          NFamilies(seg, d[1]), d[nf + 1]),
                        !.start_idx = ClampStart(start, months),
                        !.term_months = term,
                        !.base_churn = AnnualToPerRenewal(annual, term)]
                  /\ Consume(nf + 3)
                  /\ pc' = "subs_contract" /\ err' = err
  /\ UNCHANGED <<rng, g_rng, calls, calendar_dates, files, products_df,
                 customers_df, latents, subscriptions_df, usage_df, pipeline_df,
                 rows, usg, pipe>>
  /\ UNCHANGED runVars

ChurnProbUnclipped(base_churn, h, rawNoise) ==
  (base_churn * (1200 - h)) \div 1000 + Uniform(-50, 80, rawNoise)

\* lines 134-136
ChurnProb(base_churn, h, rawNoise) ==
  Clip((base_churn * (1200 - h)) \div 1000 + Uniform(-50, 80, rawNoise), 20, 950)

\* lines 116-129: one row per chosen product
ContractRows(cid, customer_id, product_ids, start_date, end_date, status) ==
  [k \in 1..Len(product_ids) |->
     [contract_id |-> cid, customer_id |-> customer_id,
      product_id |-> product_ids[k],
      contract_start_date |-> start_date, contract_end_date |-> end_date,
      status |-> status]]

EndMonthIdxInclusive(end_idx, n_months) == Min2(end_idx, n_months - 1)

\* line 110: the calendar index of the contract's last month
EndMonthIdx(end_idx, n_months) == Min2(end_idx, n_months) - 1

PastHorizonNever(end_idx, n_months) == FALSE

\* lines 131-132: the term runs past the horizon, no renewal roll
PastHorizon(end_idx, n_months) == end_idx > n_months

\* lines 137-141: does the renewal roll churn
Churns(rawRoll, churn_prob) == Random(rawRoll) < churn_prob

RenewalStartStalled(start_idx, end_idx) == start_idx

RenewalStartGap(start_idx, end_idx) == end_idx + 1

\* line 143: the renewal contract starts where its predecessor's term ended
RenewalStart(start_idx, end_idx) == end_idx

AfterChurnRenews(start_idx, end_idx, n_months) == end_idx < n_months

\* after a churn the customer's loop is left (break, line 141)
AfterChurnLoops(start_idx, end_idx, n_months) == FALSE

\* lines 107-150: one iteration of the contract loop of customer sub.i
SubsContract ==
  /\ pc = "subs_contract"
  /\ LET end_idx == sub.start_idx + sub.term_months
         start_date == PyIndex(calendar_dates, sub.start_idx)
         end_date == PyIndex(calendar_dates, EndMonthIdx(end_idx, months))
         cid == sub.contract_counter + 1
         h == latents.latent_health[sub.i + 1]
         next_customer == [sub EXCEPT !.contract_counter = cid, !.looping = FALSE,
                                      !.i = @ + 1]
     IN IF PastHorizon(end_idx, months)
        THEN /\ rows' = rows \o ContractRows(cid, sub.i + 1, sub.product_ids,
                                             start_date, end_date, "active")
             /\ sub' = next_customer
             /\ pc' = "subs_customer"
             /\ UNCHANGED srcs
        ELSE \E d \in DrawSeqs(Src, 2) :
               LET churn == Churns(d[2], ChurnProb(sub.base_churn, h, d[1]))
                   again == IF churn
                            THEN AfterChurnLoops(sub.start_idx, end_idx, months)
                            ELSE end_idx < months
               IN /\ rows' = rows \o ContractRows(cid, sub.i + 1, sub.product_ids,
                                  start_date, end_date,
                                  IF churn THEN "cancelled" ELSE "active")
                  /\ sub' = IF again
                            THEN [sub EXCEPT !.contract_counter = cid,
                                             !.start_idx =
                                                RenewalStart(sub.start_idx, end_idx)]
                            ELSE next_customer
                  /\ pc' = IF again THEN "subs_contract" ELSE "subs_customer"
                  /\ Consume(2)
  /\ UNCHANGED <<err, rng, g_rng, calls, calendar_dates, files, products_df,
                 customers_df, latents, subscriptions_df, usage_df, pipeline_df,
                 usg, pipe>>
  /\ UNCHANGED runVars

\* lines 152-153
SubsReturn ==
  /\ pc = "subs_customer"
  /\ sub.i >= Len(customers_df)
  /\ subscriptions_df' = rows
  /\ pc' = "usage"
  /\ UNCHANGED <<err, srcs, rng, g_rng, calls, calendar_dates, files,
                 products_df, customers_df, latents, usage_df, pipeline_df,
                 rows, sub, usg, pipe>>
  /\ UNCHANGED runVars


-----------------------------------------------------------------------------
(* generate_usage *)

\* days from 1970-01-01 to the first day of the month ts
DaysOfMonthStart(ts) ==
  LET y0 == ts \div 12
      m == (ts % 12) + 1
      y == IF m <= 2 THEN y0 - 1 ELSE y0
      era == y \div 400
      yoe == y - era * 400
      mp == (m + 9) % 12
      doy == (153 * mp + 2) \div 5
      doe == yoe * 365 + yoe \div 4 - yoe \div 100 + doy
  IN era * 146097 + doe - 719468

\* lines 32-44: the (customer, month index) pairs some contract row covers,
\* in the order the set is iterated (taken as ascending customer, month)
RowCovers(row, cal, m) ==
  /\ Timestamp(row.contract_start_date) <= Timestamp(cal[m + 1])
  /\ Timestamp(cal[m + 1]) <= Timestamp(row.contract_end_date)

CoversFromStart(row, cal, m) ==
  Timestamp(row.contract_start_date) <= Timestamp(cal[m + 1])

\* line 43: which rows put (customer, m) into customer_months
Covers(row, cal, m) == RowCovers(row, cal, m)

RECURSIVE PairsOf(_, _, _, _, _)
PairsOf(subs, cal, n_cust, c, m) ==
  IF c > n_cust THEN <<>>
  ELSE IF m >= Len(cal) THEN PairsOf(subs, cal, n_cust, c + 1, 0)
  ELSE (IF \E r \in 1..Len(subs) : subs[r].customer_id = c /\ Covers(subs[r], cal, m)
        THEN <<[cid |-> c, m |-> m]>> ELSE <<>>)
       \o PairsOf(subs, cal, n_cust, c, m + 1)

CustomerMonths(subs, cal) ==
  LET n_cust == IF subs = <<>> THEN 0
                ELSE CHOOSE c \in {subs[r].customer_id : r \in 1..Len(subs)} :
                       \A r \in 1..Len(subs) : subs[r].customer_id <= c
  IN PairsOf(subs, cal, n_cust, 1, 0)

\* line 46: the month index of a cancelled row's end date, by days // 30
ChurnEndIdx(row, cal) ==
  Min2(Len(cal) - 1,
       Max2(0, (DaysOfMonthStart(Timestamp(row.contract_end_date))
                - DaysOfMonthStart(Timestamp(cal[1]))) \div 30))

\* lines 45-47: customer -> its latest cancelled end index (NoChurn if none)
ChurnMonthByCustomer(subs, cal) ==
  [c \in {subs[r].customer_id : r \in 1..Len(subs)} |->
     LET ends == {ChurnEndIdx(subs[r], cal) :
                    r \in {q \in 1..Len(subs) :
                             subs[q].customer_id = c /\ subs[q].status = "cancelled"}}
     IN IF ends = {} THEN NoChurn
        ELSE CHOOSE e \in ends : \A f \in ends : f <= e]

\* lines 19-47
CallUsage ==
  /\ pc = "usage"
  /\ Enter("usage")
  /\ rows' = <<>>
  /\ usg' = [customer_months |-> CustomerMonths(subscriptions_df, calendar_dates),
             churn_month_by_customer |->
               ChurnMonthByCustomer(subscriptions_df, calendar_dates),
             k |-> 1]
  /\ pc' = "usage_row"
  /\ UNCHANGED <<err, rng, calendar_dates, files, products_df, customers_df,
                 latents, subscriptions_df, usage_df, pipeline_df, sub, pipe>>
  /\ UNCHANGED runVars

\* line 58: is month m in the pre-churn window of churn_m
InDeclineWindow(churn_m, m) == churn_m # NoChurn /\ m >= churn_m - 2 /\ m <= churn_m

\* lines 49-76: the rows of one (customer, month) pair
UsageRow ==
  /\ pc = "usage_row"
  /\ usg.k <= Len(usg.customer_months)
  /\ LET cm == usg.customer_months[usg.k]
         idx == cm.cid - 1
         created_idx == IF idx < Len(latents.created_month_index)
                        THEN latents.created_month_index[idx + 1] ELSE 0
         churn_m == usg.churn_month_by_customer[cm.cid]
         window == InDeclineWindow(churn_m, cm.m)
     IN \E d \in DrawSeqs(Src, 2) :
          LET dip == window /\ Random(d[1]) < 600
              used == IF window THEN (IF dip THEN 2 ELSE 1) ELSE 0
              decline == IF dip THEN Uniform(500, 900, d[2]) ELSE 1000
          IN /\ Unused(Src, d, used)
             /\ rows' = rows \o
                  [f \in 1..Len(config.features) |->
                     [month |-> calendar_dates[cm.m + 1],
                      customer_id |-> cm.cid,
                      feature_key |-> config.features[f],
                      months_since_start |-> cm.m - created_idx,
                      decline |-> decline]]
             /\ Consume(used)
  /\ usg' = [usg EXCEPT !.k = @ + 1]
  /\ UNCHANGED <<err, pc, rng, g_rng, calls, calendar_dates, files, products_df,
                 customers_df, latents, subscriptions_df, usage_df, pipeline_df,
                 sub, pipe>>
  /\ UNCHANGED runVars

\* lines 78-81: the month column is re-parsed and re-formatted
UsageReturn ==
  /\ pc = "usage_row"
  /\ usg.k > Len(usg.customer_months)
  /\ usage_df' = [r \in 1..Len(rows) |->
                    [rows[r] EXCEPT !.month = Strftime(Timestamp(@))]]
  /\ pc' = "pipeline"
  /\ UNCHANGED <<err, srcs, rng, g_rng, calls, calendar_dates, files,
                 products_df, customers_df, latents, subscriptions_df,
                 pipeline_df, rows, sub, usg, pipe>>
  /\ UNCHANGED runVars


-----------------------------------------------------------------------------
(* generate_pipeline *)

FORCE_CLOSE_MONTHS == 6
TERMINAL == {"closed_won", "closed_lost"}

CallPipeline ==
  /\ pc = "pipeline"
  /\ Enter("pipeline")
  /\ rows' = <<>>
  /\ pipe' = NoPipe
  /\ pc' = "pipe_month"
  /\ UNCHANGED <<err, rng, calendar_dates, files, products_df, customers_df,
                 latents, subscriptions_df, usage_df, pipeline_df, sub, usg>>
  /\ UNCHANGED runVars

\* line 56: max(0, int(n_customers * opps_per_100 / 100 * (0.8 + 0.4 * u)))
NNew(n_customers, opps_per_100, raw) ==
  Max2(0, (n_customers * opps_per_100 * (800 + (400 * Random(raw)) \div 1000)) \div 100000)

\* lines 38-45: lower + range * u^exponent (exponent 0.6 is (u^3)^(1/5),
\* exponent 0.5 the square root)
AmountForSegment(seg, raw) ==
  LET u06 == Root(Pow(Random(raw), 3), 5, 0, 1000)
      u05 == Root(Random(raw), 2, 0, 1000)
  IN CASE seg = "enterprise" -> 50000 + (150000 * u06) \div 1000
       [] seg = "large" -> 20000 + (80000 * u05) \div 1000
       [] seg = "medium" -> 5000 + (25000 * u05) \div 1000
       [] OTHER -> 1000 + (8000 * u06) \div 1000

\* lines 47-49, in tenths of a month
GetSlippage(cfg, seg, stage) ==
  LET d == IF IsEL(seg) THEN cfg.slippage["enterprise"] ELSE cfg.slippage["mid_smb"]
  IN IF stage \in DOMAIN d THEN d[stage] ELSE 0

\* lines 57-69: the k-th new opportunity of month m from its four draws
NewOpp(id, m, d, customers, cal) ==
  LET is_expansion == Random(d[1]) < 400
      seg == Choice([i \in 1..Len(customers) |-> customers[i].segment], d[2])
  IN [opportunity_id |-> id,
      customer_id |-> IF is_expansion
                      THEN Choice([i \in 1..Len(customers) |-> customers[i].customer_id], d[3])
                      ELSE NoCustomer,
      segment |-> seg,
      opportunity_type |-> IF is_expansion THEN "expansion" ELSE "new_biz",
      stage |-> "prospecting",
      amount |-> AmountForSegment(seg, IF is_expansion THEN d[4] ELSE d[3]),
      expected_close_date |-> Strftime(Timestamp(cal[m + 1]) + 3)]

NewOppDraws(d) == IF Random(d[1]) < 400 THEN 4 ELSE 3

RECURSIVE SpawnOpps(_, _, _, _, _, _)
\* the opportunities id+1..id+n_new of month m, drawn from d at offset off
SpawnOpps(n_new, id, m, d, off, customers) ==
  IF n_new = 0 THEN [opps |-> <<>>, used |-> off]
  ELSE LET dk == [i \in 1..4 |-> IF off + i <= Len(d) THEN d[off + i] ELSE 0]
           rest == SpawnOpps(n_new - 1, id + 1, m, d, off + NewOppDraws(dk), customers)
       IN [opps |-> <<NewOpp(id + 1, m, dk, customers, calendar_dates)>> \o rest.opps,
           used |-> rest.used]

\* lines 54-73: the month's new opportunities
PipeSpawn ==
  /\ pc = "pipe_month"
  /\ pipe.m < months
  /\ \E d1 \in DrawSeqs(Src, 1) :
       LET n_new == NNew(Len(customers_df),
                         config.opps_per_month_per_100_customers, d1[1])
       IN \E d \in DrawSeqs(Src, 1 + 4 * n_new) :
            LET sp == SpawnOpps(n_new, pipe.opp_counter, pipe.m, d, 1, customers_df)
            IN /\ d[1] = d1[1]
               /\ Unused(Src, d, sp.used)
               /\ pipe' = [pipe EXCEPT
                     !.open_opps = @ \o sp.opps,
                     !.opp_counter = @ + n_new,
                     !.spawned = @ \o [k \in 1..n_new |-> pipe.m],
                     !.still_open = <<>>,
                     !.j = 1]
               /\ Consume(sp.used)
  /\ pc' = "pipe_eval"
  /\ UNCHANGED <<err, rng, g_rng, calls, calendar_dates, files, products_df,
                 customers_df, latents, subscriptions_df, usage_df, pipeline_df,
                 rows, sub, usg>>
  /\ UNCHANGED runVars

\* stage_names.index(stage) if stage in stage_names else 0 (line 88)
StageIdx(stage_names, stage) ==
  IF \E k \in 1..Len(stage_names) : stage_names[k] = stage
  THEN (CHOOSE k \in 1..Len(stage_names) :
          stage_names[k] = stage /\ \A q \in 1..(k - 1) : stage_names[q] # stage) - 1
  ELSE 0

ForceCloseWindowAlways(n_months, m) == TRUE

\* line 73
ForceCloseWindow(n_months, m) == n_months - FORCE_CLOSE_MONTHS <= m

NextStageRegressing(stage_names, idx) ==
  IF idx = 2 THEN stage_names[2] ELSE stage_names[idx + 2]

NextStageLeaping(stage_names, idx) ==
  IF idx = 0 THEN stage_names[3] ELSE stage_names[idx + 2]

NextStageSkipping(stage_names, idx) ==
  IF idx = 1 THEN stage_names[4] ELSE stage_names[idx + 2]

\* line 94: stage_names[idx + 1], the stage after the one at 0-based idx
NextStage(stage_names, idx) == stage_names[idx + 2]

TransitionAdvanceFirst(cfg, o, window, d) ==
  LET names == cfg.stage_names
      idx == StageIdx(names, o.stage)
      eligible == window /\ o.stage \in {"proposal", "negotiation"}
      advance == Random(d[1]) < 520 /\ idx < Len(names) - 2
      forced == ~advance /\ eligible /\ Random(d[2]) < 350
  IN IF advance
     THEN [o |-> [o EXCEPT !.stage = names[idx + 2]],
           kind |-> "advance", used |-> 1, bad |-> FALSE]
     ELSE IF forced
     THEN [o |-> [o EXCEPT !.stage = IF Random(d[3]) < 650 THEN "closed_won"
                                     ELSE "closed_lost"],
           kind |-> "force_close", used |-> 3, bad |-> FALSE]
     ELSE [o |-> o, kind |-> "none", used |-> IF eligible THEN 2 ELSE 1,
           bad |-> FALSE]

\* lines 88-100: the month's transition of the open opportunity o from the
\* draws d; used is the number of draws made, bad a non-integer DateOffset
Transition(cfg, o, window, d) ==
  LET names == cfg.stage_names
      idx == StageIdx(names, o.stage)
      eligible == window /\ o.stage \in {"proposal", "negotiation"}
      k == IF eligible THEN 1 ELSE 0        \* draws made by the force-close test
      forced == eligible /\ Random(d[1]) < 350
      advance == ~forced /\ Random(d[k + 1]) < 520
  IN IF forced
     THEN [o |-> [o EXCEPT !.stage = IF Random(d[2]) < 650 THEN "closed_won"
                                     ELSE "closed_lost"],
           kind |-> "force_close", used |-> 2, bad |-> FALSE]
     ELSE IF advance
     THEN IF idx < Len(names) - 2
          THEN LET stage == NextStage(names, idx)
                   slip == GetSlippage(cfg, o.segment, stage)
               IN [o |-> [o EXCEPT !.stage = stage,
                                   !.expected_close_date =
                                      Strftime(Timestamp(@) + slip \div 10)],
                   kind |-> "advance", used |-> k + 1, bad |-> slip % 10 # 0]
          ELSE IF idx = Len(names) - 2
          THEN [o |-> [o EXCEPT !.stage = IF Random(d[k + 2]) < 650 THEN "closed_won"
                                          ELSE "closed_lost"],
                kind |-> "resolve", used |-> k + 2, bad |-> FALSE]
          ELSE [o |-> o, kind |-> "none", used |-> k + 1, bad |-> FALSE]
     ELSE IF o.stage = "negotiation"
     THEN IF Random(d[k + 2]) < 120
          THEN [o |-> [o EXCEPT !.stage = "closed_lost"],
                kind |-> "direct_loss", used |-> k + 2, bad |-> FALSE]
          ELSE [o |-> o, kind |-> "none", used |-> k + 2, bad |-> FALSE]
     ELSE [o |-> o, kind |-> "none", used |-> k + 1, bad |-> FALSE]

\* lines 76-86 and 102-112: the snapshot row of o for the month
SnapshotRow(snap_date, o) ==
  [snapshot_date |-> snap_date, opportunity_id |-> o.opportunity_id,
   customer_id |-> o.customer_id, segment |-> o.segment, stage |-> o.stage,
   amount |-> o.amount, expected_close_date |-> o.expected_close_date,
   opportunity_type |-> o.opportunity_type]

SnapshotsOnlyIfOpen(snap_date, o) ==
  IF o.stage \in TERMINAL THEN <<>> ELSE <<SnapshotRow(snap_date, o)>>

\* lines 101-112: the rows appended for o after its transition
Snapshots(snap_date, o) == <<SnapshotRow(snap_date, o)>>

\* lines 74-114: one opportunity of open_opps in the month's loop
PipeEval ==
  /\ pc = "pipe_eval"
  /\ pipe.j <= Len(pipe.open_opps)
  /\ LET o == pipe.open_opps[pipe.j]
         snap_date == Strftime(Timestamp(calendar_dates[pipe.m + 1]))
     IN IF o.stage \in TERMINAL
        THEN \* lines 75-87: a terminal opportunity is re-emitted unchanged
             /\ rows' = Append(rows, SnapshotRow(snap_date, o))
             /\ pipe' = [pipe EXCEPT !.j = @ + 1]
             /\ UNCHANGED <<srcs, pc, err>>
        ELSE \E d \in DrawSeqs(Src, 3) :
               LET t == Transition(config, o, ForceCloseWindow(months, pipe.m), d) IN
                 /\ Unused(Src, d, t.used)
                 /\ Consume(t.used)
                 /\ IF t.bad
                    THEN /\ Raise("ValueError: Non-integer months")
                         /\ UNCHANGED <<rows, pipe>>
                    ELSE /\ rows' = rows \o Snapshots(snap_date, t.o)
                         /\ pipe' = [pipe EXCEPT
                               !.open_opps[pipe.j] = t.o,
                               !.still_open = IF t.o.stage \in TERMINAL THEN @
                                              ELSE Append(@, t.o),
                               !.j = @ + 1]
                         /\ UNCHANGED <<pc, err>>
  /\ UNCHANGED <<rng, g_rng, calls, calendar_dates, files, products_df,
                 customers_df, latents, subscriptions_df, usage_df, pipeline_df,
                 sub, usg>>
  /\ UNCHANGED runVars

\* line 115 and the next iteration of line 54
PipeEndMonth ==
  /\ pc = "pipe_eval"
  /\ pipe.j > Len(pipe.open_opps)
  /\ pipe' = [pipe EXCEPT !.open_opps = pipe.still_open, !.m = @ + 1]
  /\ pc' = "pipe_month"
  /\ UNCHANGED <<err, srcs, rng, g_rng, calls, calendar_dates, files,
                 products_df, customers_df, latents, subscriptions_df, usage_df,
                 pipeline_df, rows, sub, usg>>
  /\ UNCHANGED runVars

\* line 117
PipeReturn ==
  /\ pc = "pipe_month"
  /\ pipe.m >= months
  /\ pipeline_df' = rows
  /\ pc' = "persist_1"
  /\ UNCHANGED <<err, srcs, rng, g_rng, calls, calendar_dates, files,
                 products_df, customers_df, latents, subscriptions_df, usage_df,
                 rows, sub, usg, pipe>>
  /\ UNCHANGED runVars


-----------------------------------------------------------------------------
(* simulate.run, lines 110-118 *)

\* the DataFrame run holds for TABLES[k]
TableOf(k) ==
  CASE k = 1 -> products_df
    [] k = 2 -> customers_df
    [] k = 3 -> subscriptions_df
    [] k = 4 -> usage_df
    [] OTHER -> pipeline_df

PersistPc == <<"persist_1", "persist_2", "persist_3", "persist_4", "persist_5">>

\* lines 111-115: write_parquet of the k-th table
Persist(k) ==
  /\ pc = PersistPc[k]
  /\ files' = [files EXCEPT ![TABLES[k]] = [exists |-> TRUE, table |-> TableOf(k)]]
  /\ pc' = IF k < 5 THEN PersistPc[k + 1] ELSE "report"
  /\ UNCHANGED <<err, srcs, rng, g_rng, calls, calendar_dates>>
  /\ UNCHANGED genVars /\ UNCHANGED runVars

\* lines 117-118: console output only
QualityReport ==
  /\ pc = "report"
  /\ pc' = "done"
  /\ UNCHANGED <<err, srcs, rng, g_rng, calls, calendar_dates, files>>
  /\ UNCHANGED genVars /\ UNCHANGED runVars

\* a second execution of simulate.run on the same configuration
Rerun ==
  /\ pc \in {"done", "raised"}
  /\ runs = 1
  /\ val.pc = "idle"
  /\ runs' = 2
  /\ prev_files' = files
  /\ pc' = "load_config" /\ err' = ""
  /\ srcs' = <<>> /\ rng' = NoRng /\ g_rng' = NoRng /\ calls' = <<>>
  /\ calendar_dates' = <<>>
  /\ products_df' = <<>> /\ customers_df' = <<>> /\ subscriptions_df' = <<>>
  /\ usage_df' = <<>> /\ pipeline_df' = <<>>
  /\ latents' = [latent_health |-> <<>>, created_month_index |-> <<>>]
  /\ rows' = <<>> /\ sub' = NoSub /\ usg' = NoUsg /\ pipe' = NoPipe
  /\ UNCHANGED <<config, files, val>>


-----------------------------------------------------------------------------
(* validate_simulation: the five checks.  A check's result is a record     *)
(* [ok, errs]; a check whose figures rest on columns left out of the model *)
(* yields the set of results its return statements allow.                  *)

CHECKS == <<"segment_distribution", "annualized_churn", "revenue_concentration",
            "pipeline", "usage">>
Pass == [ok |-> TRUE, errs |-> <<>>]
Result(fails) == [ok |-> fails = <<>>, errs |-> fails]

RECURSIVE Flatten(_)
Flatten(ss) == IF ss = <<>> THEN <<>> ELSE ss[1] \o Flatten(Tail(ss))

\* lines 53-68
SegmentDistribution(customers, cfg) ==
  LET target == cfg.segment_mix
      n == Len(customers)
      count(seg) == Cardinality({i \in 1..n : customers[i].segment = seg})
      \* |count/n - target| > 0.08
      off(seg) == LET diff == count(seg) * 1000 - target[seg] * n
                  IN (IF diff < 0 THEN -diff ELSE diff) > 80 * n
  IN IF DOMAIN target = {} THEN {Pass}
     ELSE IF n = 0 THEN {[ok |-> FALSE, errs |-> <<"No customers">>]}
     ELSE {Result(Flatten([k \in 1..4 |->
              IF SEGMENTS[k] \in DOMAIN target /\ off(SEGMENTS[k])
              THEN <<"Segment share off target">> ELSE <<>>]))}

\* line 92: the row contributes ARR to month ts (mrr > 0 for every row)
ArrCovers(row, ts) ==
  /\ Timestamp(row.contract_start_date) <= ts
  /\ ts <= Timestamp(row.contract_end_date)
  /\ row.status = "active"

RECURSIVE SortedSeq(_)
SortedSeq(S) ==
  IF S = {} THEN <<>>
  ELSE LET x == CHOOSE y \in S : \A z \in S : y <= z
       IN <<x>> \o SortedSeq(S \ {x})

\* lines 84-101: the month columns and customer rows of arr_wide
ArrMonths(subs) ==
  LET lo == CHOOSE t \in {Timestamp(subs[r].contract_start_date) : r \in 1..Len(subs)} :
              \A r \in 1..Len(subs) : t <= Timestamp(subs[r].contract_start_date)
      hi == CHOOSE t \in {Timestamp(subs[r].contract_end_date) : r \in 1..Len(subs)} :
              \A r \in 1..Len(subs) : t >= Timestamp(subs[r].contract_end_date)
  IN SortedSeq({t \in lo..hi : \E r \in 1..Len(subs) : ArrCovers(subs[r], t)})

ArrCustomers(subs) ==
  {subs[r].customer_id : r \in {q \in 1..Len(subs) : subs[q].status = "active"}}

ArrPositive(subs, cid, ts) ==
  \E r \in 1..Len(subs) : subs[r].customer_id = cid /\ ArrCovers(subs[r], ts)

\* lines 102-108: positive ARR, then two zero columns
Churned(subs) ==
  LET cols == ArrMonths(subs)
  IN {cid \in ArrCustomers(subs) :
        \E i \in 1..(Len(cols) - 2) :
           /\ ArrPositive(subs, cid, cols[i])
           /\ ~ArrPositive(subs, cid, cols[i + 1])
           /\ ~ArrPositive(subs, cid, cols[i + 2])}

\* lines 130-134 with rate = (n_c/n_s) * (12 / max(1, period/12)):
\* is the rate outside target * (1 -+ 0.35)
ChurnOutOfBand(n_c, n_s, period_months, target) ==
  LET den == n_s * Max2(12, period_months)
  IN \/ n_c * 144 * 100000 < target * 65 * den
     \/ n_c * 144 * 100000 > target * 135 * den

OverallFailsCompared(n_churned, n_at_risk, period_months, targets) ==
  IF \A seg \in DOMAIN targets :
       ChurnOutOfBand(n_churned, n_at_risk, period_months, targets[seg])
  THEN <<"Churn overall">> ELSE <<>>

\* line 117: annualized_overall is assigned and never read; it adds nothing
\* to fails
OverallFails(n_churned, n_at_risk, period_months, targets) == <<>>

\* line 130: rate_s in thousandths, as the message prints it ({rate_s:.3f})
AnnualizedRate(n_c, n_s, period_months) ==
  LET den == n_s * Max2(12, period_months)
  IN (2 * n_c * 144000 + den) \div (2 * den)

\* line 135: the failure message names the segment and the rate
ChurnMessage(seg, rate) == "Churn " \o seg \o ": annualized " \o ToString(rate)

\* lines 71-136
AnnualizedChurn(subs, customers, cfg) ==
  LET targets == cfg.churn_targets_by_segment
      at_risk == ArrCustomers(subs)
      churned == Churned(subs)
      period == Len(ArrMonths(subs))
      seg_ids(seg) == {customers[i].customer_id :
                         i \in {j \in 1..Len(customers) : customers[j].segment = seg}}
      n_s(seg) == Cardinality(seg_ids(seg) \cap at_risk)
      n_c_s(seg) == Cardinality(seg_ids(seg) \cap at_risk \cap churned)
      bad(seg) == /\ n_s(seg) # 0
                  /\ ChurnOutOfBand(n_c_s(seg), n_s(seg), period, targets[seg])
  IN IF DOMAIN targets = {} \/ subs = <<>> THEN Pass
     ELSE IF at_risk = {}
     THEN [ok |-> TRUE, errs |-> <<"No active subscription-months for churn calc">>]
     ELSE Result(
           OverallFails(Cardinality(churned), Cardinality(at_risk), period, targets)
           \o Flatten([k \in 1..4 |->
             IF SEGMENTS[k] \in DOMAIN targets /\ bad(SEGMENTS[k])
             THEN <<ChurnMessage(SEGMENTS[k],
                                 AnnualizedRate(n_c_s(SEGMENTS[k]), n_s(SEGMENTS[k]),
                                                period))>>
             ELSE <<>>]))

\* lines 139-175; the top-5 share is 1 when at most five customers have ARR
\* in the last month, and rests on the left-out amounts otherwise
RevenueConcentration(subs, customers, cfg) ==
  LET last_dt == Timestamp(cfg.start_month) + cfg.months - 1
      with_arr == {subs[r].customer_id :
                     r \in {q \in 1..Len(subs) : ArrCovers(subs[q], last_dt)}}
      el == {c \in with_arr : \E i \in 1..Len(customers) :
               customers[i].customer_id = c /\ IsEL(customers[i].segment)}
      overall == <<"Top-5 share overall out of range">>
      group == <<"Enterprise_large top-5 share low">>
  IN IF subs = <<>> \/ with_arr = {} THEN {Pass}
     ELSE IF Cardinality(with_arr) <= 5 THEN {Result(overall)}
     ELSE {Result(f) : f \in {<<>>, overall}
                       \cup (IF Cardinality(el) > 5 THEN {group, overall \o group} ELSE {})}

StageRank(stage) == StageIdx(STAGE_ORDER, stage)

\* the snapshots of one opportunity, ordered by snapshot_date (stable)
RECURSIVE SnapshotsOf(_, _)
SnapshotsOf(pipeline, id) ==
  LET own == SelectIdx([r \in 1..Len(pipeline) |-> pipeline[r].opportunity_id = id],
                       1, Len(pipeline))
      dates == SortedSeq({pipeline[own[i]].snapshot_date : i \in 1..Len(own)})
  IN Flatten([k \in 1..Len(dates) |->
        LET at == SelectIdx([i \in 1..Len(own) |->
                     pipeline[own[i]].snapshot_date = dates[k]], 1, Len(own))
        IN [i \in 1..Len(at) |-> pipeline[own[at[i]]]]])

\* lines 178-213
PipelineChecks(pipeline) ==
  LET ids == {pipeline[r].opportunity_id : r \in 1..Len(pipeline)}
      last(id) == Last(SnapshotsOf(pipeline, id))
      closed == {id \in ids : last(id).stage \in TERMINAL}
      won == {id \in closed : last(id).stage = "closed_won"}
      rate_bad == \/ Cardinality(won) * 100 < 15 * Cardinality(closed)
                  \/ Cardinality(won) * 100 > 45 * Cardinality(closed)
      regressed(id) == LET g == SnapshotsOf(pipeline, id)
                       IN \E i \in 2..Len(g) :
                            StageRank(g[i].stage) < StageRank(g[i - 1].stage)
      regressions == Cardinality({id \in ids : regressed(id)})
      vol_bad == regressions * 100 < 5 * Cardinality(ids)
  IN IF pipeline = <<>> THEN Pass
     ELSE IF closed = {}
     THEN [ok |-> FALSE, errs |-> <<"No closed_won/closed_lost opportunities">>]
     ELSE Result((IF rate_bad THEN <<"Close rate out of range">> ELSE <<>>)
                 \o (IF vol_bad THEN <<"Stage volatility low">> ELSE <<>>))

\* lines 216-239; the coefficient of variation and the correlation rest on
\* the left-out usage counts
UsageChecks(usage, customers) ==
  LET cv == <<"Usage CV low">>
      corr == <<"CRM health vs usage correlation out of range">>
      with_usage == {usage[r].customer_id : r \in 1..Len(usage)}
  IN IF usage = <<>> THEN {Pass}
     ELSE {[ok |-> FALSE, errs |-> <<"Usage mean is 0">>]}
          \cup {Result(f) : f \in {<<>>, cv}
                 \cup (IF Cardinality(with_usage) >= 10 THEN {corr, cv \o corr} ELSE {})}

\* the results check k can return on the loaded tables
CheckResults(k) ==
  LET t(name) == files[name].table IN
  CASE k = 1 -> SegmentDistribution(t("customers"), config)
    [] k = 2 -> {AnnualizedChurn(t("subscription_line_items"), t("customers"), config)}
    [] k = 3 -> RevenueConcentration(t("subscription_line_items"), t("customers"), config)
    [] k = 4 -> {PipelineChecks(t("pipeline_opportunities_snapshot"))}
    [] OTHER -> UsageChecks(t("usage_monthly"), t("customers"))

-----------------------------------------------------------------------------
(* validate_simulation.run_validation *)

ValFrame == UNCHANGED <<pc, err, srcs, rng, g_rng, calls, calendar_dates, files,
                        config, runs, prev_files>> /\ UNCHANGED genVars

\* line 243, once an execution of simulate.run has ended
VLoadConfig ==
  /\ pc \in {"done", "raised"}
  /\ val.pc = "idle"
  /\ val' = IF config.exists THEN [val EXCEPT !.pc = "load_tables"]
            ELSE [val EXCEPT !.pc = "raised", !.err = "FileNotFoundError"]
  /\ ValFrame

\* lines 244-253: _load_parquet raises on a missing file
VLoadTables ==
  /\ val.pc = "load_tables"
  /\ val' = IF \A k \in 1..5 : files[TABLES[k]].exists
            THEN [val EXCEPT !.pc = "check", !.loaded = TRUE]
            ELSE [val EXCEPT !.pc = "raised", !.err = "FileNotFoundError"]
  /\ ValFrame

\* lines 259-263: all_fails.extend(errs) once per element of errs
Extended(all_fails, errs) == all_fails \o Flatten([i \in 1..Len(errs) |-> errs])

ContinuesAfterFailOnly(res) == res.errs = <<>>

\* does run_validation go on to the next check after this result
ContinuesAfter(res) == TRUE

\* lines 258-301: the next of the five checks
VCheck ==
  /\ val.pc = "check"
  /\ Len(val.log) < 5
  /\ LET k == Len(val.log) + 1 IN
       \E res \in CheckResults(k) :
         val' = [val EXCEPT
                   !.log = Append(@, [check |-> CHECKS[k], ok |-> res.ok,
                                      errs |-> res.errs]),
                   !.all_fails = Extended(@, res.errs),
                   !.pc = IF k = 5 \/ ~ContinuesAfter(res) THEN "result" ELSE "check"]
  /\ ValFrame

\* lines 303-311
ExitStatus(all_fails) == IF all_fails # <<>> THEN 1 ELSE 0

VResult ==
  /\ val.pc = "result"
  /\ val' = [val EXCEPT !.pc = "done", !.exit = ExitStatus(val.all_fails)]
  /\ ValFrame

-----------------------------------------------------------------------------
(* The whole program: simulate.run twice on one configuration, then the    *)
(* validator                                                               *)

\* configurations of a sound source: seeds, customer counts, with and without
\* a segment mix, realistic and high churn targets
SoundConfigs ==
  {[BaseConfig EXCEPT !.random_seed = s, !.n_customers_total = n,
                      !.segment_mix = x, !.churn_targets_by_segment = c]
     : s \in Seeds, n \in {0, 1, 2},
       x \in {<<>>, BaseConfig.segment_mix},
       c \in {BaseConfig.churn_targets_by_segment, [g \in Range(SEGMENTS) |-> 900]}}

\* the same with one fault each: no source, a format other than parquet, an
\* empty horizon, an empty term list, a slippage of 1.5 months
FaultyConfigs ==
  UNION {{[c EXCEPT !.exists = FALSE],
          [c EXCEPT !.format = "csv"],
          [c EXCEPT !.months = 0],
          [c EXCEPT !.ms_terms = <<>>],
          [c EXCEPT !.slippage["enterprise"]["proposal"] = 15,
                    !.slippage["mid_smb"]["proposal"] = 15]}
         : c \in {k \in SoundConfigs :
                    /\ k.segment_mix # <<>>
                    /\ k.churn_targets_by_segment = BaseConfig.churn_targets_by_segment}}

RunConfigs == SoundConfigs \cup FaultyConfigs

Init ==
  /\ config \in RunConfigs
  /\ pc = "load_config" /\ err = ""
  /\ srcs = <<>> /\ rng = NoRng /\ g_rng = NoRng /\ calls = <<>>
  /\ calendar_dates = <<>>
  /\ products_df = <<>> /\ customers_df = <<>> /\ subscriptions_df = <<>>
  /\ usage_df = <<>> /\ pipeline_df = <<>>
  /\ latents = [latent_health |-> <<>>, created_month_index |-> <<>>]
  /\ rows = <<>> /\ sub = NoSub /\ usg = NoUsg /\ pipe = NoPipe
  /\ files = NoFiles /\ runs = 1 /\ prev_files = NoFiles
  /\ val = NoVal

Generate ==
  \/ CallProducts \/ GenProducts
  \/ CallCustomers \/ GenCustomers
  \/ CallSubscriptions \/ SubsCustomer \/ SubsContract \/ SubsReturn
  \/ CallUsage \/ UsageRow \/ UsageReturn
  \/ CallPipeline \/ PipeSpawn \/ PipeEval \/ PipeEndMonth \/ PipeReturn

Next ==
  \/ LoadConfig \/ MakeRng \/ CheckFormat \/ Calendar
  \/ Generate
  \/ \E k \in 1..5 : Persist(k)
  \/ QualityReport
  \/ Rerun
  \/ VLoadConfig \/ VLoadTables \/ VCheck \/ VResult

Spec == Init /\ [][Next]_vars

-----------------------------------------------------------------------------
(* The contract and usage generators on their own, from the state in which *)
(* run calls generate_subscriptions, over an entropy-seeded source         *)
(* (random_seed: null), so that every sample of every draw is explored     *)

SubsMonths == 4      \* horizon of the contract and usage exploration
SubsCustomers == 2   \* customers of the seeded contract and usage runs
SubsSeeds == 40      \* seeded sources of the contract and usage exploration

\* the customers table and latents generate_customers returns for the given
\* segments, created months and latent healths
CustomersOf(cal, inputs) ==
  [df |-> [i \in 1..Len(inputs) |->
             [customer_id |-> i, segment |-> inputs[i].segment,
              crm_health_input |-> CrmLinear(inputs[i].health, 500),
              created_date |-> cal[inputs[i].created + 1]]],
   latents |-> [latent_health |-> [i \in 1..Len(inputs) |-> inputs[i].health],
                created_month_index |-> [i \in 1..Len(inputs) |-> inputs[i].created]]]

\* run at the call of the k-th generator (k >= 3) with the configuration cfg,
\* the products and customers tables and the source handed to the generators;
\* the tables the generators explored from here do not read are left empty
AtCall(cfg, k, inputs) ==
  LET cal == MonthCalendar(cfg)
      c == CustomersOf(cal, inputs)
  IN /\ config = cfg
     /\ pc = GENERATORS[k] /\ err = ""
     /\ srcs = <<DefaultRng(cfg.random_seed)>> /\ rng = 1 /\ g_rng = 1
     /\ calls = [j \in 1..(k - 1) |-> [gen |-> GENERATORS[j], rng |-> 1]]
     /\ calendar_dates = cal
     /\ products_df = ProductRows([j \in 1..4 |-> 0])
     /\ customers_df = c.df /\ latents = c.latents
     /\ subscriptions_df = <<>> /\ usage_df = <<>> /\ pipeline_df = <<>>
     /\ rows = <<>> /\ sub = NoSub /\ usg = NoUsg /\ pipe = NoPipe
     /\ files = NoFiles /\ runs = 1 /\ prev_files = NoFiles
     /\ val = NoVal

SubsInputs ==
  [segment : {"enterprise", "medium", "smb"},
   created : 0..(SubsMonths - 1),
   health : {200, 900}]

\* one customer of every kind under an entropy-seeded source (every sample
\* of every draw), SubsCustomers customers under seeded sources
InitSubs ==
  \/ \E inputs \in [1..1 -> SubsInputs] :
       AtCall([BaseConfig EXCEPT !.random_seed = NoSeed, !.months = SubsMonths,
                                 !.n_customers_total = 1],
              3, inputs)
  \/ \E inputs \in [1..SubsCustomers -> {x \in SubsInputs : x.created = 0}],
        s \in 0..(SubsSeeds - 1),
        c \in {BaseConfig.churn_targets_by_segment, [g \in Range(SEGMENTS) |-> 900]} :
       AtCall([BaseConfig EXCEPT !.random_seed = s, !.months = SubsMonths,
                                 !.n_customers_total = SubsCustomers,
                                 !.churn_targets_by_segment = c],
              3, inputs)

NextSubs ==
  \/ CallSubscriptions \/ SubsCustomer \/ SubsContract \/ SubsReturn
  \/ CallUsage \/ UsageRow \/ UsageReturn

SpecSubs == InitSubs /\ [][NextSubs]_vars

-----------------------------------------------------------------------------
(* The customer generator on its own, from the state in which run calls    *)
(* generate_customers, with contradictory_signal_rate 0, 0.08 and 0.5;     *)
(* seeded sources                                                          *)

CrmCustomers == 2    \* customers of the customer exploration, at most
CrmSeeds == 20       \* seeded sources of the customer exploration

InitCustomers ==
  \E n \in 1..CrmCustomers, s \in 0..(CrmSeeds - 1), rate \in {0, 80, 500} :
    LET cfg == [BaseConfig EXCEPT !.random_seed = s, !.n_customers_total = n,
                                  !.contradictory_signal_rate = rate]
    IN /\ config = cfg
       /\ pc = GENERATORS[2] /\ err = ""
       /\ srcs = <<DefaultRng(s)>> /\ rng = 1 /\ g_rng = 1
       /\ calls = <<[gen |-> GENERATORS[1], rng |-> 1]>>
       /\ calendar_dates = MonthCalendar(cfg)
       /\ products_df = ProductRows([j \in 1..4 |-> 0])
       /\ customers_df = <<>>
       /\ latents = [latent_health |-> <<>>, created_month_index |-> <<>>]
       /\ subscriptions_df = <<>> /\ usage_df = <<>> /\ pipeline_df = <<>>
       /\ rows = <<>> /\ sub = NoSub /\ usg = NoUsg /\ pipe = NoPipe
       /\ files = NoFiles /\ runs = 1 /\ prev_files = NoFiles
       /\ val = NoVal

NextCustomers == CallCustomers \/ GenCustomers

SpecCustomers == InitCustomers /\ [][NextCustomers]_vars

-----------------------------------------------------------------------------
(* The contract generator over a horizon of a year and a month with terms  *)
(* of half a year and a year, so that a one-year contract meets its        *)
(* renewal roll; one customer, seeded sources                              *)

RenewalMonths == 13  \* horizon of the renewal exploration
RenewalSeeds == 40   \* seeded sources of the renewal exploration

InitRenewal ==
  \E inputs \in [1..1 -> [segment : {"enterprise", "smb"}, created : {0},
                          health : {200, 500, 900}]],
     s \in 0..(RenewalSeeds - 1),
     c \in {BaseConfig.churn_targets_by_segment}
           \cup {[g \in Range(SEGMENTS) |-> x] : x \in {0, 100, 1000}} :
    AtCall([BaseConfig EXCEPT !.random_seed = s, !.months = RenewalMonths,
                              !.n_customers_total = 1,
                              !.churn_targets_by_segment = c,
                              !.el_terms = <<12>>, !.el_lags = <<0>>,
                              !.ms_terms = <<6, 12>>, !.ms_lags = <<0>>],
           3, inputs)

SpecRenewal == InitRenewal /\ [][NextSubs]_vars

-----------------------------------------------------------------------------
(* The pipeline generator on its own, from the state in which run calls    *)
(* generate_pipeline, over seeded sources; the horizon is long enough for  *)
(* opportunities in proposal before and inside the force-close window      *)

PipeMonths == 9      \* horizon of the pipeline exploration
PipeSeeds == 200     \* seeded sources of the pipeline exploration

PipeInputs ==
  [segment : {"enterprise", "smb"}, created : {0}, health : {500}]

\* one or two customers under seeded sources
InitPipe ==
  \E n \in 1..2 : \E inputs \in [1..n -> PipeInputs], s \in 0..(PipeSeeds - 1) :
    AtCall([BaseConfig EXCEPT !.random_seed = s, !.months = PipeMonths,
                              !.n_customers_total = n],
           5, inputs)

NextPipe ==
  \/ CallPipeline \/ PipeSpawn \/ PipeEval \/ PipeEndMonth \/ PipeReturn

SpecPipe == InitPipe /\ [][NextPipe]_vars

-----------------------------------------------------------------------------
(* The pipeline generator executed for one seed after another on the same  *)
(* customers, for as long as the table it returns holds no opportunity     *)
(* the validator counts as a regression                                    *)

SweepSeeds == 8      \* seeds tried, 0..SweepSeeds-1

\* validate_simulation lines 201-208: the opportunities whose stage rank, in
\* snapshot order, is lower in some snapshot than in the one before
Regressions(pipeline) ==
  {id \in {pipeline[r].opportunity_id : r \in 1..Len(pipeline)} :
     LET g == SnapshotsOf(pipeline, id)
     IN \E i \in 2..Len(g) : /\ StageRank(g[i].stage) < StageRank(g[i - 1].stage)
                             /\ StageRank(g[i].stage) >= 0}

InitSweep ==
  \E n \in 1..2 : \E inputs \in [1..n -> PipeInputs] :
    AtCall([BaseConfig EXCEPT !.random_seed = 0, !.months = PipeMonths,
                              !.n_customers_total = n],
           5, inputs)

\* the next execution of run, with the next random_seed in the
\* configuration, at its call of generate_pipeline
SweepNext ==
  /\ pc = "persist_1"
  /\ Regressions(pipeline_df) = {}
  /\ config.random_seed < SweepSeeds - 1
  /\ config' = [config EXCEPT !.random_seed = @ + 1]
  /\ runs' = runs + 1
  /\ pc' = GENERATORS[5]
  /\ srcs' = <<DefaultRng(config.random_seed + 1)>>
  /\ pipeline_df' = <<>> /\ rows' = <<>> /\ pipe' = NoPipe
  /\ UNCHANGED <<err, rng, g_rng, calls, calendar_dates, files, products_df,
                 customers_df, latents, subscriptions_df, usage_df, sub, usg,
                 prev_files, val>>

NextSweep == NextPipe \/ SweepNext

SpecSweep == InitSweep /\ [][NextSweep]_vars

-----------------------------------------------------------------------------
(* run_validation on its own, over the files of a finished execution whose *)
(* contract histories are drawn from a bounded set: a customer either      *)
(* holds one active contract over the whole horizon, or an active contract *)
(* over its first third followed by a cancelled one                        *)

ValCustomers == 2    \* customers in the validated files, at most
ValYears == 2        \* longest validated horizon, in years

ValInputs == [segment : {"enterprise", "smb"}, churned : BOOLEAN]

\* the subscription_line_items rows of customer i over a horizon of h months
ValContracts(cal, i, x) ==
  LET h == Len(cal) IN
  IF x.churned
  THEN ContractRows(2 * i - 1, i, <<1>>, cal[1], cal[h \div 3], "active")
       \o ContractRows(2 * i, i, <<1>>, cal[h \div 3 + 1], cal[2 * (h \div 3)], "cancelled")
  ELSE ContractRows(2 * i - 1, i, <<1>>, cal[1], cal[h], "active")

\* the files simulate.run leaves for the customers `inputs` (lines 111-115)
ValFiles(cfg, inputs) ==
  LET cal == MonthCalendar(cfg)
      subs == Flatten([i \in 1..Len(inputs) |-> ValContracts(cal, i, inputs[i])])
      held(k) == CASE k = 1 -> ProductRows([j \in 1..4 |-> 0])
                   [] k = 2 -> CustomersOf(cal, [i \in 1..Len(inputs) |->
                                 [segment |-> inputs[i].segment, created |-> 0,
                                  health |-> 500]]).df
                   [] k = 3 -> subs
                   [] OTHER -> <<>>
  IN [t \in Range(TABLES) |->
        [exists |-> TRUE,
         table |-> held(CHOOSE k \in 1..5 : TABLES[k] = t)]]

\* horizons of 3 months and of 12, 24, ... months; churn targets for every
\* segment or for smb alone
InitVal ==
  \E n \in 1..ValCustomers : \E inputs \in [1..n -> ValInputs],
     h \in {3} \cup {12 * y : y \in 1..ValYears},
     c \in {BaseConfig.churn_targets_by_segment, [g \in {"smb"} |-> 250]} :
    LET cfg == [BaseConfig EXCEPT !.months = h, !.n_customers_total = n,
                                  !.random_seed = DEFAULT_SEED,
                                  !.churn_targets_by_segment = c]
    IN /\ config = cfg
       /\ pc = "done" /\ err = ""
       /\ srcs = <<>> /\ rng = NoRng /\ g_rng = NoRng /\ calls = <<>>
       /\ calendar_dates = <<>>
       /\ products_df = <<>> /\ customers_df = <<>> /\ subscriptions_df = <<>>
       /\ usage_df = <<>> /\ pipeline_df = <<>>
       /\ latents = [latent_health |-> <<>>, created_month_index |-> <<>>]
       /\ rows = <<>> /\ sub = NoSub /\ usg = NoUsg /\ pipe = NoPipe
       /\ files = ValFiles(cfg, inputs) /\ runs = 1 /\ prev_files = NoFiles
       /\ val = NoVal

NextVal == VLoadConfig \/ VLoadTables \/ VCheck \/ VResult

SpecVal == InitVal /\ [][NextVal]_vars

-----------------------------------------------------------------------------
(* The contract and usage generators over calendars that start in January  *)
(* and in February, with terms of two and four months so that a contract   *)
(* can be cancelled at every even month index; one customer, seeded        *)
(* sources                                                                 *)

UsageMonths == 5     \* longest horizon of the usage exploration
UsageSeeds == 12     \* seeded sources of the usage exploration

InitUsage ==
  \E inputs \in [1..1 -> [segment : {"enterprise", "smb"}, created : {0},
                          health : {200, 900}]],
     s \in 0..(UsageSeeds - 1),
     start \in {StartMonthDefault, 202302},
     h \in (UsageMonths - 1)..UsageMonths,
     c \in {BaseConfig.churn_targets_by_segment, [g \in Range(SEGMENTS) |-> 900]} :
    AtCall([BaseConfig EXCEPT !.random_seed = s, !.months = h,
                              !.start_month = start,
                              !.n_customers_total = 1,
                              !.churn_targets_by_segment = c,
                              !.el_terms = <<2>>, !.el_lags = <<0>>,
                              !.ms_terms = <<2, 4>>, !.ms_lags = <<0>>],
           3, inputs)

SpecUsage == InitUsage /\ [][NextSubs]_vars

-----------------------------------------------------------------------------
(* Properties of simulate.run and run_validation (specification Spec)      *)

Written == {t \in Range(TABLES) : files[t].exists}
Persisting == pc \in (Range(PersistPc) \cup {"report", "done"})

\* the positions of run inside the k-th generator
InGenerator ==
  <<{"products_body"}, {"customers_body"}, {"subs_customer", "subs_contract"},
    {"usage_row"}, {"pipe_month", "pipe_eval"}>>

C2_OneSourceInOrder ==
  /\ Len(srcs) <= 1
  /\ rng = Len(srcs)
  /\ Len(calls) <= Len(GENERATORS)
  /\ \A k \in 1..Len(calls) :
       /\ calls[k].gen = GENERATORS[k]
       /\ calls[k].rng = rng /\ rng # NoRng
  /\ calls # <<>> => g_rng = rng
  /\ Persisting => Len(calls) = Len(GENERATORS)
  /\ \A k \in 1..Len(GENERATORS) :
       /\ pc = GENERATORS[k] => Len(calls) = k - 1
       /\ pc \in InGenerator[k] => Len(calls) = k

\* all five generators have been called and each has drawn from the source
C2_Witness ==
  /\ pc = "done" /\ Len(calls) = 5
  /\ Len(srcs) = 1 /\ srcs[1].pos > 4
  /\ pipeline_df # <<>> /\ usage_df # <<>>

\* C3: no table is written before all five generators have returned; when a
\* generator raises, the execution ends with none of the five tables written
C3_NoPartialDataset ==
  runs = 1 =>
    /\ Written # {} => (Persisting /\ err = "" /\ Len(calls) = Len(GENERATORS))
    /\ pc = "raised" => Written = {}

\* a generator other than the first raised after earlier generators returned
\* their tables
C3_Witness ==
  /\ runs = 1 /\ pc = "raised" /\ Len(calls) >= 3
  /\ products_df # <<>> /\ customers_df # <<>>
  /\ Written = {}

\* C4: when the configuration source does not exist, or output.format is not
\* 'parquet', run raises before any generator is called and before any table
\* is written
C4_ConfigErrorsFirst ==
  (~config.exists \/ config.format # "parquet") =>
     /\ pc \in {"load_config", "rng", "format", "raised"}
     /\ calls = <<>>
     /\ Written = {}
     /\ pc = "raised" =>
          err = (IF config.exists THEN "ValueError: Unsupported output format"
                 ELSE "FileNotFoundError")

\* the run of a configuration whose format is csv has raised
C4_Witness ==
  /\ config.exists /\ config.format = "csv"
  /\ pc = "raised" /\ err = "ValueError: Unsupported output format"

\* C5: once the five tables are loaded, run_validation runs the five checks
\* in the order segment distribution, annualized churn, revenue
\* concentration, pipeline, usage, whatever the earlier checks returned: it
\* does not reach its result before all five have reported
C5_AllChecksRun ==
  /\ Len(val.log) <= Len(CHECKS)
  /\ \A k \in 1..Len(val.log) : val.log[k].check = CHECKS[k]
  /\ val.pc \in {"result", "done"} => Len(val.log) = Len(CHECKS)
  /\ val.log # <<>> => val.loaded

\* the validation is done, the first check failed and the last one reported
C5_Witness ==
  /\ val.pc = "done" /\ Len(val.log) = 5
  /\ ~val.log[1].ok
  /\ val.log[5].check = "usage"

\* C6: run_validation returns 0 if and only if every one of the five checks
\* returned pass, and 1 if and only if at least one check returned fail
C6_ExitIffAllPass ==
  val.pc = "done" =>
     /\ val.exit \in {0, 1}
     /\ val.exit = 0 <=> \A k \in 1..Len(val.log) : val.log[k].ok

-----------------------------------------------------------------------------
(* Properties of generate_subscriptions and generate_usage (SpecSubs)      *)

\* the contract rows emitted so far: the generator's list while it runs, the
\* table it returned afterwards
ContractRowsSoFar ==
  IF pc \in {"subs_customer", "subs_contract"} THEN rows ELSE subscriptions_df

\* the usage rows emitted so far
UsageRowsSoFar == IF pc = "usage_row" THEN rows ELSE usage_df

\* the number of calendar months from a row's start date through its end date
TermLength(row) ==
  Timestamp(row.contract_end_date) - Timestamp(row.contract_start_date) + 1

\* the contract_term_months choices of the row's customer
TermChoices(row) ==
  Range(SegmentBehavior(config, customers_df[row.customer_id].segment).term_months)

\* C7: a cancelled contract has no successor: all product rows of a cancelled
\* contract are cancelled, no contract row of that customer starts later, and
\* every earlier contract of that customer is still active, so only the last
\* contract of a customer's chain can be cancelled
C7_CancelledHasNoSuccessor ==
  LET t == ContractRowsSoFar IN
  \A r \in 1..Len(t) : \A q \in 1..Len(t) :
    (t[r].status = "cancelled" /\ t[q].customer_id = t[r].customer_id) =>
       IF t[q].contract_id = t[r].contract_id
       THEN t[q].status = "cancelled"
            /\ t[q].contract_start_date = t[r].contract_start_date
       ELSE t[q].status = "active"
            /\ t[q].contract_start_date < t[r].contract_start_date
            /\ t[q].contract_id < t[r].contract_id

\* the generator has returned the chains of two customers, in one of which a
\* renewed contract was followed by a cancelled one
C7_Witness ==
  /\ pc = "usage" /\ Len(customers_df) = 2
  /\ \E r, q \in 1..Len(subscriptions_df) :
       /\ subscriptions_df[r].status = "cancelled"
       /\ subscriptions_df[q].customer_id = subscriptions_df[r].customer_id
       /\ subscriptions_df[q].contract_id < subscriptions_df[r].contract_id

\* C8 as stated: every contract row has contract_end_date >= contract_start_date
\* and a term length equal to one of the contract_term_months choices of the
\* customer's segment group
C8_TermIsAChoice ==
  LET t == ContractRowsSoFar IN
  \A r \in 1..Len(t) :
    /\ t[r].contract_end_date >= t[r].contract_start_date
    /\ TermLength(t[r]) \in TermChoices(t[r])

\* C8 as amended: every contract row has contract_end_date >=
\* contract_start_date; its term length is one of the configured choices,
\* or, when the chosen term runs past the horizon, the row ends in the last
\* calendar month and is shorter than the chosen term
C8_TermIsAChoiceOrTruncated ==
  LET t == ContractRowsSoFar IN
  \A r \in 1..Len(t) :
    /\ t[r].contract_end_date >= t[r].contract_start_date
    /\ \/ TermLength(t[r]) \in TermChoices(t[r])
       \/ /\ t[r].contract_end_date = Last(calendar_dates)
          /\ \E term \in TermChoices(t[r]) : TermLength(t[r]) < term
          /\ t[r].status = "active"

\* the returned table has a row of a configured term and a row cut at the
\* horizon end
C8_Witness ==
  /\ pc = "usage"
  /\ \E r, q \in 1..Len(subscriptions_df) :
       /\ TermLength(subscriptions_df[r]) \in TermChoices(subscriptions_df[r])
       /\ TermLength(subscriptions_df[q]) \notin TermChoices(subscriptions_df[q])
       /\ subscriptions_df[q].contract_end_date = Last(calendar_dates)

\* is the usage row u covered by the contract row c
CoveredBy(u, c) ==
  /\ c.customer_id = u.customer_id
  /\ c.contract_start_date <= u.month
  /\ u.month <= c.contract_end_date

\* C9 as stated: every usage row's (customer_id, month) is covered by a
\* contract row of that customer with status active
C9_UsageUnderActiveContract ==
  \A k \in 1..Len(UsageRowsSoFar) :
    \E r \in 1..Len(subscriptions_df) :
      /\ CoveredBy(UsageRowsSoFar[k], subscriptions_df[r])
      /\ subscriptions_df[r].status = "active"

\* C9 as amended: every usage row's (customer_id, month) is covered by a
\* contract row of that customer, active or cancelled; no usage row exists
\* for a (customer, month) pair outside every contract interval
C9_UsageUnderSomeContract ==
  \A k \in 1..Len(UsageRowsSoFar) :
    \E r \in 1..Len(subscriptions_df) :
      CoveredBy(UsageRowsSoFar[k], subscriptions_df[r])

\* the usage table is returned; a customer whose contract was cancelled
\* before the horizon end has usage rows, all inside its contracts, and none
\* after the cancelled contract's end
C9_Witness ==
  /\ pc = "pipeline" /\ usage_df # <<>>
  /\ \E r \in 1..Len(subscriptions_df) :
       /\ subscriptions_df[r].status = "cancelled"
       /\ subscriptions_df[r].contract_end_date < Last(calendar_dates)
       /\ \E k \in 1..Len(usage_df) : CoveredBy(usage_df[k], subscriptions_df[r])

-----------------------------------------------------------------------------
(* Properties of generate_pipeline (SpecPipe)                              *)

\* the snapshot rows emitted so far
SnapshotRowsSoFar ==
  IF pc \in {"pipe_month", "pipe_eval"} THEN rows ELSE pipeline_df

\* the calendar index of a snapshot date
MonthIndex(date) == Timestamp(date) - Timestamp(calendar_dates[1])

\* the months in which opportunity id has a snapshot row (with a terminal
\* stage)
SnapshotMonths(id) ==
  {MonthIndex(SnapshotRowsSoFar[i].snapshot_date) :
     i \in {j \in 1..Len(SnapshotRowsSoFar) : SnapshotRowsSoFar[j].opportunity_id = id}}
TerminalMonths(id) ==
  {MonthIndex(SnapshotRowsSoFar[i].snapshot_date) :
     i \in {j \in 1..Len(SnapshotRowsSoFar) :
              /\ SnapshotRowsSoFar[j].opportunity_id = id
              /\ SnapshotRowsSoFar[j].stage \in TERMINAL}}

\* the last month whose evaluation of opportunity id is over
EvaluatedUpTo(id) ==
  IF /\ pc = "pipe_eval"
     /\ \A k \in pipe.j..Len(pipe.open_opps) : pipe.open_opps[k].opportunity_id # id
  THEN pipe.m
  ELSE pipe.m - 1

\* C10: every opportunity open at the start of a month's evaluation emits
\* exactly one snapshot row for that month, showing its stage after the
\* month's transition: (opportunity_id, snapshot_date) is unique, and an
\* opportunity has a row for every month from its spawn month up to the month
\* it becomes terminal, or up to the last evaluated month while it is open
C10_OneSnapshotPerOpenMonth ==
  LET t == SnapshotRowsSoFar IN
  /\ \A i, j \in 1..Len(t) :
       (t[i].opportunity_id = t[j].opportunity_id
        /\ t[i].snapshot_date = t[j].snapshot_date) => i = j
  /\ \A id \in 1..Len(pipe.spawned) :
       LET ends == TerminalMonths(id)
           last == IF ends = {} THEN EvaluatedUpTo(id)
                   ELSE CHOOSE e \in ends : \A f \in ends : e <= f
       IN SnapshotMonths(id) = pipe.spawned[id]..last
  /\ pc \in {"pipe_month", "pipe_eval"} =>
       \A k \in 1..Len(pipe.open_opps) :
         LET o == pipe.open_opps[k] IN
         EvaluatedUpTo(o.opportunity_id) >= pipe.spawned[o.opportunity_id] =>
           \E i \in 1..Len(t) :
             /\ t[i].opportunity_id = o.opportunity_id
             /\ MonthIndex(t[i].snapshot_date) = EvaluatedUpTo(o.opportunity_id)
             /\ t[i].stage = o.stage

\* the generator has returned; one opportunity became terminal before the
\* horizon end after at least three snapshots, another stayed open to the
\* last month
C10_Witness ==
  /\ pc = "persist_1"
  /\ \E id \in 1..Len(pipe.spawned) :
       /\ TerminalMonths(id) # {}
       /\ \A e \in TerminalMonths(id) : e < months - 1
       /\ Cardinality(SnapshotMonths(id)) >= 3
  /\ \E id \in 1..Len(pipe.spawned) :
       /\ TerminalMonths(id) = {}
       /\ months - 1 \in SnapshotMonths(id)
       /\ pipe.spawned[id] < months - 1

\* the snapshot rows of opportunity id for calendar month m
SnapshotsAt(id, m) ==
  {i \in 1..Len(SnapshotRowsSoFar) :
     /\ SnapshotRowsSoFar[i].opportunity_id = id
     /\ MonthIndex(SnapshotRowsSoFar[i].snapshot_date) = m}

\* C11: once an opportunity has reached a terminal stage, a snapshot row for
\* it, unchanged in stage, amount and expected close date, is emitted in
\* every later month up to the end of the horizon
C11_TerminalRepeated ==
  pc = "persist_1" =>
    \A i \in 1..Len(pipeline_df) :
      pipeline_df[i].stage \in TERMINAL =>
        \A m \in (MonthIndex(pipeline_df[i].snapshot_date) + 1)..(months - 1) :
          \E j \in SnapshotsAt(pipeline_df[i].opportunity_id, m) :
            /\ pipeline_df[j].stage = pipeline_df[i].stage
            /\ pipeline_df[j].amount = pipeline_df[i].amount
            /\ pipeline_df[j].expected_close_date = pipeline_df[i].expected_close_date

\* the funnel order: the four open stages, then the terminal states
FunnelRank(stage) ==
  CASE stage = "prospecting" -> 0
    [] stage = "discovery" -> 1
    [] stage = "proposal" -> 2
    [] stage = "negotiation" -> 3
    [] OTHER -> 4

\* C13: for every opportunity, with its snapshots ordered by month, the stage
\* sequence is non-decreasing in the funnel order; a terminal state is
\* absorbing (no later snapshot shows another stage); at the horizon end an
\* opportunity's last snapshot is terminal or one of the open stages
C13_StagesMonotone ==
  LET t == SnapshotRowsSoFar IN
  /\ \A i, j \in 1..Len(t) :
       (t[i].opportunity_id = t[j].opportunity_id
        /\ t[i].snapshot_date < t[j].snapshot_date) =>
          /\ FunnelRank(t[i].stage) <= FunnelRank(t[j].stage)
          /\ t[i].stage \in TERMINAL => t[j].stage = t[i].stage
  /\ \A i \in 1..Len(t) : t[i].stage \in Range(STAGE_ORDER)

\* the generator has returned; an opportunity went through all four open
\* stages to a terminal state, another is still open in the last month
C13_Witness ==
  /\ pc = "persist_1"
  /\ \E id \in 1..Len(pipe.spawned) :
       /\ {"prospecting", "discovery", "proposal", "negotiation"} \subseteq
            {pipeline_df[i].stage : i \in {j \in 1..Len(pipeline_df) :
                                              pipeline_df[j].opportunity_id = id}}
       /\ TerminalMonths(id) # {}
  /\ \E i \in 1..Len(pipeline_df) :
       /\ MonthIndex(pipeline_df[i].snapshot_date) = months - 1
       /\ pipeline_df[i].stage \in {"discovery", "proposal", "negotiation"}

\* the value the i-th call of rng.random() from now returns (seeded source)
DrawAt(i) == Bits(Src.seed, Src.pos + i - 1)

\* C12: in the evaluation of an open opportunity the transitions are tried in
\* the order force-close, forward-advance, negotiation direct-loss, each only
\* if the one before did not fire: a fired force-close makes no advance draw;
\* an eligible opportunity whose force-close draw failed still gets the
\* advance draw; the direct-loss draw is made only after a failed advance
\* draw in negotiation; at most one transition is applied
C12_PriorityOrder ==
  [][(pc = "pipe_eval" /\ pipe'.j = pipe.j + 1) =>
       LET o == pipe.open_opps[pipe.j]
           after == pipe'.open_opps[pipe.j]
           made == srcs'[g_rng].pos - Src.pos
           eligible == /\ ForceCloseWindow(months, pipe.m)
                       /\ o.stage \in {"proposal", "negotiation"}
           k == IF eligible THEN 1 ELSE 0
           forced == eligible /\ DrawAt(1) < 350
           advanced == ~forced /\ DrawAt(k + 1) < 520
           lost == /\ ~forced /\ ~advanced /\ o.stage = "negotiation"
                   /\ DrawAt(k + 2) < 120
       IN /\ forced => after.stage \in TERMINAL /\ made = 2
          /\ advanced =>
               /\ FunnelRank(after.stage) = FunnelRank(o.stage) + 1
               /\ o.stage # "negotiation" => made = k + 1
          /\ lost => after.stage = "closed_lost" /\ made = k + 2
          /\ (~forced /\ ~advanced /\ ~lost) =>
               /\ after = o
               /\ made = k + (IF o.stage = "negotiation" THEN 2 ELSE 1)]_vars

\* an opportunity in proposal inside the force-close window has just been
\* evaluated: its force-close draw failed, its advance draw passed, and it
\* now stands in negotiation
C12_Witness ==
  /\ pc = "pipe_eval"
  /\ pipe.j > 1
  /\ ForceCloseWindow(months, pipe.m)
  /\ pipe.open_opps[pipe.j - 1].stage = "negotiation"
  /\ Bits(Src.seed, Src.pos - 2) >= 350
  /\ Bits(Src.seed, Src.pos - 1) < 520
  /\ \E i \in SnapshotsAt(pipe.open_opps[pipe.j - 1].opportunity_id, pipe.m - 1) :
       rows[i].stage = "proposal"

\* C20: with the default stage names, a passed advance draw moves an
\* opportunity below negotiation exactly one stage forward and shifts its
\* expected close date by the slippage configured for the new stage and the
\* opportunity's segment group; an opportunity in negotiation is resolved by
\* the won/lost draw, to closed_won or to closed_lost
C20_AdvanceOrResolve ==
  [][(pc = "pipe_eval" /\ pipe'.j = pipe.j + 1) =>
       LET o == pipe.open_opps[pipe.j]
           after == pipe'.open_opps[pipe.j]
           made == srcs'[g_rng].pos - Src.pos
           eligible == /\ ForceCloseWindow(months, pipe.m)
                       /\ o.stage \in {"proposal", "negotiation"}
           k == IF eligible THEN 1 ELSE 0
           forced == eligible /\ DrawAt(1) < 350
           advanced == ~forced /\ DrawAt(k + 1) < 520
           group == IF IsEL(o.segment) THEN "enterprise" ELSE "mid_smb"
       IN (advanced /\ config.stage_names = STAGE_ORDER) =>
            IF o.stage = "negotiation"
            THEN /\ made = k + 2
                 /\ after.stage = IF DrawAt(k + 2) < 650 THEN "closed_won"
                                  ELSE "closed_lost"
            ELSE /\ FunnelRank(after.stage) = FunnelRank(o.stage) + 1
                 /\ after.stage \notin TERMINAL
                 /\ Timestamp(after.expected_close_date) =
                      Timestamp(o.expected_close_date)
                      + config.slippage[group][after.stage] \div 10]_vars

-----------------------------------------------------------------------------
(* Properties of the generated pipeline against the validator's pipeline   *)
(* check (specification SpecSweep)                                         *)

\* every seed has been tried and none gave a table with a regression
SweepExhausted ==
  /\ pc = "persist_1"
  /\ config.random_seed = SweepSeeds - 1
  /\ Regressions(pipeline_df) = {}

\* C14: the generator models stage regression: trying one seed after another
\* finds an opportunity history in which a later snapshot has a lower stage
\* rank (validator's order) than an earlier one, which the validator's
\* stage-volatility criterion needs to be met by a non-empty pipeline
C14_RegressionReachable == ~SweepExhausted

-----------------------------------------------------------------------------
(* Properties of the validator's annualized churn check (specification     *)
(* SpecVal)                                                                *)

\* the annualized churn check has run on the files of the last execution
ChurnChecked == val.loaded /\ Len(val.log) >= 2

\* C15: the annualized rate the validator computes for a segment, as its
\* failure message prints it, is (churned / at_risk) * (12 / observed_months)
\* with observed_months the number of month columns of the ARR matrix
C15_RateByObservedMonths ==
  ChurnChecked =>
    LET subs == files["subscription_line_items"].table
        customers == files["customers"].table
        observed_months == Len(ArrMonths(subs))
        at_risk(seg) == {customers[i].customer_id : i \in {j \in 1..Len(customers) :
                           customers[j].segment = seg}} \cap ArrCustomers(subs)
        n_s(seg) == Cardinality(at_risk(seg))
        n_c(seg) == Cardinality(at_risk(seg) \cap Churned(subs))
        rate(seg) == (2 * n_c(seg) * 12000 + n_s(seg) * observed_months)
                       \div (2 * n_s(seg) * observed_months)
    IN \A i \in 1..Len(val.log[2].errs) :
         \/ val.log[2].errs[i] = "No active subscription-months for churn calc"
         \/ \E seg \in Range(SEGMENTS) :
              n_s(seg) # 0 /\ val.log[2].errs[i] = ChurnMessage(seg, rate(seg))

\* the at-risk customers of the validated files, all or of one segment
AtRisk(seg) ==
  LET customers == files["customers"].table
  IN {c \in ArrCustomers(files["subscription_line_items"].table) :
        seg = "" \/ \E i \in 1..Len(customers) :
                      customers[i].customer_id = c /\ customers[i].segment = seg}

\* the rate of the at-risk customers of seg (all of them for "") is outside
\* the band of the target
OutOfBand(seg, target) ==
  LET subs == files["subscription_line_items"].table
  IN ChurnOutOfBand(Cardinality(AtRisk(seg) \cap Churned(subs)),
                    Cardinality(AtRisk(seg)), Len(ArrMonths(subs)), target)

\* the overall rate is outside the band of every configured target
OverallOutOfBand ==
  /\ AtRisk("") # {}
  /\ \A seg \in DOMAIN config.churn_targets_by_segment :
       OutOfBand("", config.churn_targets_by_segment[seg])

\* C16 as stated: the verdict of the annualized churn check depends on the
\* overall rate too: an out-of-band overall rate makes the check fail
C16_OverallRateDecides ==
  (ChurnChecked /\ OverallOutOfBand) => ~val.log[2].ok

\* C16 amended: the band is evaluated for each configured segment with
\* at-risk customers and for nothing else: the check passes exactly when
\* every such segment's rate is inside the band of its target
C16_PerSegmentOnly ==
  (ChurnChecked /\ AtRisk("") # {}) =>
    (val.log[2].ok <=>
       \A seg \in DOMAIN config.churn_targets_by_segment :
         AtRisk(seg) = {} \/ ~OutOfBand(seg, config.churn_targets_by_segment[seg]))

\* the check has passed on files whose overall rate is outside the band of
\* every configured target
C16_Witness ==
  ChurnChecked /\ OverallOutOfBand /\ val.log[2].ok

-----------------------------------------------------------------------------
(* Properties of the renewal roll (specification SpecRenewal)              *)

\* the contract of the customer in hand ends inside the horizon: the next
\* step of generate_subscriptions makes the renewal roll
AtRenewalRoll ==
  /\ pc = "subs_contract"
  /\ ~PastHorizon(sub.start_idx + sub.term_months, months)

\* C17: for the annual churn target c of the customer's segment and a term
\* of t months the base per-renewal probability is 1 - (1 - c)^(t/12), so c
\* itself for t = 12; the renewal roll churns with that probability times
\* (1.2 - latent_health), plus the noise, clipped to [0.02, 0.95]
C17_PerRenewalProbability ==
  [][AtRenewalRoll =>
       LET c == config.churn_targets_by_segment[customers_df[sub.i + 1].segment]
           t == sub.term_months
           h == latents.latent_health[sub.i + 1]
           p == sub.base_churn
           kept == Pow(1000 - p, 12 \div t)      \* (1 - p)^(12/t), t divides 12
           adjusted == (p * (1200 - h)) \div 1000
           prob == Clip(adjusted + Uniform(-50, 80, DrawAt(1)), 20, 950)
       IN /\ t = 12 => p = c
          /\ kept - (1000 - c) \in -2..2
          /\ (c = 100 /\ t = 12 /\ h = 900) => adjusted = 30
          /\ (rows'[Len(rows')].status = "cancelled") <=> (DrawAt(2) < prob)]_vars

\* a one-year contract under the target 0.10 of a customer of latent health
\* 0.9 has ended inside the horizon and met its renewal roll
C17_Witness ==
  /\ pc \in {"subs_customer", "subs_contract"}
  /\ \E r \in 1..Len(rows) :
       /\ TermLength(rows[r]) = 12
       /\ rows[r].contract_end_date < Last(calendar_dates)
       /\ latents.latent_health[rows[r].customer_id] = 900
       /\ config.churn_targets_by_segment[customers_df[rows[r].customer_id].segment] = 100

-----------------------------------------------------------------------------
(* Properties of the CRM health score (specification SpecCustomers)        *)

\* C18: every crm_health_input is an integer of 1..10; a customer whose
\* contradiction draw is below contradictory_signal_rate gets a score of
\* 1..3 when its latent health is at least 0.5 and of 7..10 otherwise; with
\* contradictory_signal_rate = 0 no inversion draw is made and every score
\* is the linear scaling of the latent health plus the noise, rounded and
\* clamped, which does not decrease when the latent health grows
C18_CrmScore ==
  [][(pc = "customers_body" /\ pc' = "subscriptions") =>
       LET n == config.n_customers_total
           rate == config.contradictory_signal_rate
           h(i) == latents'.latent_health[i]
           crm(i) == customers_df'[i].crm_health_input
           noise(i) == DrawAt(3 * n + i)
           used == srcs'[g_rng].pos - Src.pos
       IN \A i \in 1..n :
            /\ crm(i) \in 1..10
            /\ Random(DrawAt(4 * n + i)) < rate =>
                 IF h(i) >= 500 THEN crm(i) \in 1..3 ELSE crm(i) \in 7..10
            /\ rate = 0 =>
                 /\ used = 5 * n
                 /\ crm(i) = Clip(RoundHalfEven(h(i) * 9 + 1000
                                                + (NormalQ(noise(i)) * 800) \div 1000),
                                  1, 10)
                 /\ \A lower \in {200, 400, 600, 800} :
                      lower <= h(i) => CrmLinear(lower, noise(i)) <= crm(i)]_vars

\* generate_customers has returned under contradictory_signal_rate = 0 with
\* a customer whose contradiction draw is below the default rate 0.08 and
\* whose score is the linear one
C18_Witness ==
  /\ pc = "subscriptions"
  /\ config.contradictory_signal_rate = 0
  /\ LET n == config.n_customers_total
         first == Src.pos - 5 * n
     IN \E i \in 1..n :
          /\ Bits(Src.seed, first + 4 * n + i - 1) < 80
          /\ customers_df[i].crm_health_input =
               CrmLinear(latents.latent_health[i], Bits(Src.seed, first + 3 * n + i - 1))

-----------------------------------------------------------------------------
(* Properties of the products table (specification Spec)                   *)

\* C19: the products table generate_products returns holds exactly five
\* products with distinct ids: one recurring product for each of the
\* families a, b, c, d, with a default term of 12 or 24 months, and exactly
\* one non-recurring add-on, of family d; only the recurring terms differ
\* from seed to seed
C19_FiveProducts ==
  products_df # <<>> =>
    LET n == Len(products_df)
        recurring(f) == {i \in 1..n : /\ products_df[i].product_family = f
                                      /\ products_df[i].is_recurring}
        addons == {i \in 1..n : ~products_df[i].is_recurring}
    IN /\ n = 5
       /\ \A i, j \in 1..n :
            products_df[i].product_id = products_df[j].product_id => i = j
       /\ \A i \in 1..n : products_df[i].product_family \in Range(FAMILIES)
       /\ \A f \in Range(FAMILIES) :
            /\ Cardinality(recurring(f)) = 1
            /\ \A i \in recurring(f) : products_df[i].default_term_months \in {12, 24}
       /\ Cardinality(addons) = 1
       /\ \A i \in addons : products_df[i].product_family = "d"

\* generate_products has returned a table in which both terms occur
C19_Witness ==
  /\ pc = "customers"
  /\ {products_df[i].default_term_months :
        i \in {j \in 1..Len(products_df) : products_df[j].is_recurring}} = {12, 24}

-----------------------------------------------------------------------------
(* Further properties of the pipeline generator (specification SpecPipe)   *)

\* C21: an open opportunity becomes terminal in a month only from
\* negotiation, or from proposal in the final window of the horizon (month
\* index m >= months - 6); the force-close draw is made only in that window
\* and only for an opportunity at proposal or negotiation, so outside the
\* window an opportunity at prospecting, discovery or proposal stays open
C21_ForcedOnlyInWindow ==
  [][(pc = "pipe_eval" /\ pipe'.j = pipe.j + 1) =>
       LET o == pipe.open_opps[pipe.j]
           after == pipe'.open_opps[pipe.j]
           made == srcs'[g_rng].pos - Src.pos
           in_window == pipe.m >= months - 6
       IN /\ after.stage \in TERMINAL =>
               \/ o.stage = "negotiation"
               \/ in_window /\ o.stage = "proposal"
          /\ (~in_window \/ o.stage \in {"prospecting", "discovery"}) =>
               made = IF o.stage = "negotiation" /\ DrawAt(1) >= 520 THEN 2 ELSE 1
          /\ (~in_window /\ o.stage # "negotiation") => after.stage \notin TERMINAL]_vars

\* an opportunity in proposal has been force-closed inside the window, and
\* an earlier month outside the window left an opportunity in proposal open
C21_Witness ==
  /\ pc = "pipe_eval"
  /\ pipe.j > 1
  /\ pipe.m >= months - 6
  /\ pipe.open_opps[pipe.j - 1].stage \in TERMINAL
  /\ \E i \in SnapshotsAt(pipe.open_opps[pipe.j - 1].opportunity_id, pipe.m - 1) :
       rows[i].stage = "proposal"
  /\ \E i, j \in 1..Len(rows) :
       /\ rows[i].opportunity_id = rows[j].opportunity_id
       /\ rows[i].stage = "proposal"
       /\ MonthIndex(rows[j].snapshot_date) = MonthIndex(rows[i].snapshot_date) + 1
       /\ MonthIndex(rows[j].snapshot_date) < months - 6
       /\ rows[j].stage \notin TERMINAL

\* the fields of a snapshot row or an open opportunity that identify it
Identity(o) ==
  <<o.opportunity_id, o.customer_id, o.segment, o.opportunity_type, o.amount>>

\* is `later` the stage one step after `earlier` in the configured funnel
OneStageForward(earlier, later) ==
  \E k \in 1..(Len(config.stage_names) - 1) :
    config.stage_names[k] = earlier /\ config.stage_names[k + 1] = later

\* snapshots i and j are of one opportunity in successive months
Successive(i, j) ==
  /\ SnapshotRowsSoFar[i].opportunity_id = SnapshotRowsSoFar[j].opportunity_id
  /\ MonthIndex(SnapshotRowsSoFar[j].snapshot_date)
       = MonthIndex(SnapshotRowsSoFar[i].snapshot_date) + 1

\* C25: all snapshots of one opportunity agree on opportunity_id,
\* customer_id, segment, opportunity_type and amount, and two successive
\* snapshots differ in expected_close_date only if the stage went one step
\* forward between them; in the month's evaluation of an open opportunity
\* the snapshot row keeps the opportunity's identity, and keeps its
\* expected_close_date unless the stage moved one step forward: a month
\* with no transition, a direct loss and a force-close from proposal leave
\* the date as it was
C25_CloseDateMovesOnAdvance ==
  /\ [](\A i, j \in 1..Len(SnapshotRowsSoFar) :
          /\ SnapshotRowsSoFar[i].opportunity_id = SnapshotRowsSoFar[j].opportunity_id
               => Identity(SnapshotRowsSoFar[i]) = Identity(SnapshotRowsSoFar[j])
          /\ (Successive(i, j)
              /\ SnapshotRowsSoFar[i].expected_close_date
                   # SnapshotRowsSoFar[j].expected_close_date)
               => OneStageForward(SnapshotRowsSoFar[i].stage,
                                  SnapshotRowsSoFar[j].stage))
  /\ [][(pc = "pipe_eval" /\ Len(rows') = Len(rows) + 1) =>
          LET o == pipe.open_opps[pipe.j]
              row == rows'[Len(rows')]
          IN /\ Identity(row) = Identity(o)
             /\ row.expected_close_date # o.expected_close_date
                  => OneStageForward(o.stage, row.stage)
             /\ (\/ row.stage = o.stage
                 \/ row.stage = "closed_lost"
                 \/ (o.stage = "proposal" /\ row.stage \in TERMINAL))
                  => row.expected_close_date = o.expected_close_date]_vars

\* the generator has returned; an opportunity's expected close date moved
\* between two successive snapshots, and another opportunity went from
\* proposal to a terminal state with the date it had
C25_Witness ==
  /\ pc = "persist_1"
  /\ \E i, j \in 1..Len(pipeline_df) :
       /\ Successive(i, j)
       /\ pipeline_df[i].expected_close_date # pipeline_df[j].expected_close_date
  /\ \E i, j \in 1..Len(pipeline_df) :
       /\ Successive(i, j)
       /\ pipeline_df[i].stage = "proposal" /\ pipeline_df[j].stage \in TERMINAL
       /\ pipeline_df[i].expected_close_date = pipeline_df[j].expected_close_date

\* the first snapshot rows: those with no earlier snapshot of the opportunity
FirstSnapshots ==
  {i \in 1..Len(SnapshotRowsSoFar) :
     \A j \in 1..Len(SnapshotRowsSoFar) :
       SnapshotRowsSoFar[j].opportunity_id = SnapshotRowsSoFar[i].opportunity_id
         => SnapshotRowsSoFar[i].snapshot_date <= SnapshotRowsSoFar[j].snapshot_date}

\* the first snapshot of every opportunity is dated in its spawn month
FirstInSpawnMonth ==
  \A i \in FirstSnapshots :
    MonthIndex(SnapshotRowsSoFar[i].snapshot_date)
      = pipe.spawned[SnapshotRowsSoFar[i].opportunity_id]

\* C26: the first snapshot of every opportunity, emitted in its spawn month,
\* shows the stage prospecting
C26_FirstSnapshotProspecting ==
  /\ FirstInSpawnMonth
  /\ \A i \in FirstSnapshots : SnapshotRowsSoFar[i].stage = "prospecting"

\* C26, as the generator has it: the first snapshot of every opportunity is
\* emitted in its spawn month, after the month's evaluation of the
\* opportunity, and shows prospecting or, if that evaluation advanced it,
\* discovery
C26_FirstSnapshotAfterEvaluation ==
  /\ FirstInSpawnMonth
  /\ \A i \in FirstSnapshots :
       SnapshotRowsSoFar[i].stage \in {"prospecting", "discovery"}

\* the generator has returned; one opportunity's first snapshot shows
\* discovery, another's prospecting
C26_Witness ==
  /\ pc = "persist_1"
  /\ \E i, j \in FirstSnapshots :
       /\ pipeline_df[i].stage = "discovery"
       /\ pipeline_df[j].stage = "prospecting"

-----------------------------------------------------------------------------
(* Further properties of the renewal roll (specification SpecRenewal)      *)

\* C22: at every renewal roll the effective churn probability lies in
\* [0.02, 0.95] whatever the noise, so a low enough roll churns and a high
\* enough roll renews: a roll below 0.02 cancels the contract and a roll of
\* 0.95 or more keeps it active
C22_NeitherOutcomeCertain ==
  [][AtRenewalRoll =>
       LET h == latents.latent_health[sub.i + 1]
           prob(raw) == ChurnProb(sub.base_churn, h, raw)
           cancelled == rows'[Len(rows')].status = "cancelled"
       IN /\ \A raw \in {0, DrawAt(1), 999} :
               /\ prob(raw) \in 20..950
               /\ Churns(0, prob(raw))
               /\ ~Churns(999, prob(raw))
          /\ DrawAt(2) < 20 => cancelled
          /\ DrawAt(2) >= 950 => ~cancelled]_vars

\* under the churn target 1 a one-year contract of a customer of latent
\* health 0.2 has met its renewal roll and was renewed, where the unclipped
\* probability is 1 or more
C22_Witness ==
  /\ pc \in {"subs_customer", "subs_contract"}
  /\ \E r \in 1..Len(rows) :
       /\ TermLength(rows[r]) = 12
       /\ rows[r].contract_end_date < Last(calendar_dates)
       /\ rows[r].status = "active"
       /\ latents.latent_health[rows[r].customer_id] = 200
       /\ config.churn_targets_by_segment[customers_df[rows[r].customer_id].segment] = 1000

-----------------------------------------------------------------------------
(* Properties of the validator's churn reconstruction on generated files   *)
(* (specification Spec)                                                    *)

\* C23: on the files of a run the validator's churn reconstruction agrees
\* with the generator's churn decisions: a customer with a cancelled
\* contract is at risk, and is a churn event when at least two months of
\* the horizon follow the end of the cancelled contract; a customer with no
\* cancelled contract, covered in every month from its first contract to
\* the horizon end, is not a churn event
C23_ChurnReconstruction ==
  ChurnChecked =>
    LET subs == files["subscription_line_items"].table
        last_month == Timestamp(config.start_month) + config.months - 1
        own(c) == {r \in 1..Len(subs) : subs[r].customer_id = c}
        cancelled(c) == {r \in own(c) : subs[r].status = "cancelled"}
        covered(c, ts) == \E r \in own(c) :
                            /\ Timestamp(subs[r].contract_start_date) <= ts
                            /\ ts <= Timestamp(subs[r].contract_end_date)
        first(c) == CHOOSE ts \in {Timestamp(subs[r].contract_start_date) : r \in own(c)} :
                      \A r \in own(c) : ts <= Timestamp(subs[r].contract_start_date)
    IN \A c \in {subs[r].customer_id : r \in 1..Len(subs)} :
         /\ cancelled(c) # {} =>
              /\ c \in ArrCustomers(subs)
              /\ (\E r \in cancelled(c) :
                    last_month - Timestamp(subs[r].contract_end_date) >= 2)
                   => c \in Churned(subs)
         /\ (cancelled(c) = {} /\ \A ts \in first(c)..last_month : covered(c, ts))
              => c \notin Churned(subs)

-----------------------------------------------------------------------------
(* Properties of the usage generator (specification SpecUsage)             *)

\* C24: a usage row with a decline factor below 1 belongs to a customer with
\* a cancelled contract, and its month index m satisfies
\* churn_m - 2 <= m <= churn_m, where churn_m is the calendar month index of
\* the end date of that cancelled contract, whatever the start month and the
\* horizon
C24_DipOnlyBeforeChurn ==
  \A r \in 1..Len(UsageRowsSoFar) :
    UsageRowsSoFar[r].decline < 1000 =>
      \E q \in 1..Len(subscriptions_df) :
        /\ subscriptions_df[q].customer_id = UsageRowsSoFar[r].customer_id
        /\ subscriptions_df[q].status = "cancelled"
        /\ MonthIndex(UsageRowsSoFar[r].month)
             \in (MonthIndex(subscriptions_df[q].contract_end_date) - 2)
                 ..MonthIndex(subscriptions_df[q].contract_end_date)

-----------------------------------------------------------------------------
(* Properties of the contract chains (specification SpecSubs)              *)

\* the product ids of the rows of contract cid
ProductsOf(cid) ==
  {ContractRowsSoFar[r].product_id :
     r \in {q \in 1..Len(ContractRowsSoFar) : ContractRowsSoFar[q].contract_id = cid}}

\* row q belongs to the contract that follows the contract of row r in the
\* chain of one customer
Succeeds(q, r) ==
  LET t == ContractRowsSoFar IN
  /\ t[q].customer_id = t[r].customer_id
  /\ t[q].contract_id > t[r].contract_id
  /\ \A p \in 1..Len(t) :
       (t[p].customer_id = t[r].customer_id /\ t[p].contract_id > t[r].contract_id)
         => t[p].contract_id >= t[q].contract_id

\* C27: a customer's successive contracts are contiguous and do not overlap:
\* a renewal contract starts in the month after its predecessor's end month,
\* at the predecessor's start index plus the term, with the same set of
\* product ids, the same term and a new contract_id; no month is covered by
\* two contract_ids of one customer; a contract_id belongs to one customer
\* and (contract_id, product_id) is unique over the rows
C27_ChainsContiguous ==
  /\ [](LET t == ContractRowsSoFar IN
        \A r, q \in 1..Len(t) :
          /\ Succeeds(q, r) =>
               /\ Timestamp(t[q].contract_start_date)
                    = Timestamp(t[r].contract_end_date) + 1
               /\ ProductsOf(t[q].contract_id) = ProductsOf(t[r].contract_id)
               /\ TermLength(t[q]) <= TermLength(t[r])
               /\ TermLength(t[q]) < TermLength(t[r])
                    => t[q].contract_end_date = Last(calendar_dates)
          /\ (t[q].customer_id = t[r].customer_id
              /\ t[q].contract_id # t[r].contract_id) =>
               \/ t[q].contract_end_date < t[r].contract_start_date
               \/ t[r].contract_end_date < t[q].contract_start_date
          /\ t[q].contract_id = t[r].contract_id =>
               /\ t[q].customer_id = t[r].customer_id
               /\ t[q].contract_start_date = t[r].contract_start_date
               /\ t[q].contract_end_date = t[r].contract_end_date
               /\ t[q].product_id = t[r].product_id => q = r)
  /\ [][(pc = "subs_contract" /\ pc' = "subs_contract") =>
          /\ sub'.start_idx = sub.start_idx + sub.term_months
          /\ sub'.term_months = sub.term_months
          /\ sub'.product_ids = sub.product_ids
          /\ sub'.i = sub.i
          /\ \A r \in 1..Len(rows) : rows[r].contract_id < sub'.contract_counter
          /\ \A r \in (Len(rows) + 1)..Len(rows') :
               rows'[r].contract_id = sub'.contract_counter]_vars

\* the generator has returned the chains of two customers; one of them
\* renewed a contract of more than one product
C27_Witness ==
  /\ pc = "usage" /\ Len(customers_df) = 2
  /\ \E r, q \in 1..Len(subscriptions_df) :
       /\ Succeeds(q, r)
       /\ Cardinality(ProductsOf(subscriptions_df[r].contract_id)) > 1

\* C28: a contract whose term runs past the horizon (start_idx + term >
\* months) ends in the last calendar month, is active and is emitted without
\* a draw, after which the customer's loop is left; a contract whose term
\* ends inside the horizon meets the two draws of the renewal roll; so a
\* cancelled contract has start_idx + term <= months and its full term
C28_TruncatedNeverCancelled ==
  /\ [][pc = "subs_contract" =>
          LET end_idx == sub.start_idx + sub.term_months
              new == {rows'[r] : r \in (Len(rows) + 1)..Len(rows')}
          IN /\ new # {}
             /\ \A r \in 1..Len(rows) : rows'[r] = rows[r]
             /\ IF end_idx > months
                THEN /\ \A row \in new :
                          /\ row.contract_end_date = Last(calendar_dates)
                          /\ TermLength(row) < sub.term_months
                          /\ row.status = "active"
                     /\ srcs' = srcs
                     /\ pc' = "subs_customer"
                ELSE /\ \A row \in new : TermLength(row) = sub.term_months
                     /\ srcs' # srcs]_vars
  /\ [](\A r \in 1..Len(ContractRowsSoFar) :
          ContractRowsSoFar[r].status = "cancelled" =>
            /\ TermLength(ContractRowsSoFar[r]) \in TermChoices(ContractRowsSoFar[r])
            /\ MonthIndex(ContractRowsSoFar[r].contract_start_date)
                 + TermLength(ContractRowsSoFar[r]) <= months)

\* the returned table has an active row cut at the horizon end and a
\* cancelled row of a full term that ends in the last calendar month
C28_Witness ==
  /\ pc = "usage"
  /\ \E r, q \in 1..Len(subscriptions_df) :
       /\ subscriptions_df[r].status = "active"
       /\ subscriptions_df[r].contract_end_date = Last(calendar_dates)
       /\ TermLength(subscriptions_df[r]) \notin TermChoices(subscriptions_df[r])
       /\ subscriptions_df[q].status = "cancelled"
       /\ subscriptions_df[q].contract_end_date = Last(calendar_dates)

\* the contracts of customer c among the rows t
ContractsOf(t, c) ==
  {t[r].contract_id : r \in {q \in 1..Len(t) : t[q].customer_id = c}}

\* the least k with k * d >= n
CeilDiv(n, d) == (n + d - 1) \div d

\* C29: the contract loop of every customer terminates: the chosen term is
\* positive, every iteration starts inside the horizon and emits a contract,
\* a renewal strictly increases the start index, the customer has at most
\* ceil(months / term) contracts, and the loop is left by a churn, after a
\* term cut at the horizon, or with the start index at the horizon end; every
\* customer whose loop has ended has at least one contract
C29_ContractLoopTerminates ==
  /\ [][pc = "subs_contract" =>
          LET end_idx == sub.start_idx + sub.term_months
              n == Cardinality(ContractsOf(rows', sub.i + 1))
          IN /\ sub.term_months > 0
             /\ sub.start_idx \in 0..(months - 1)
             /\ n = Cardinality(ContractsOf(rows, sub.i + 1)) + 1
             /\ n <= CeilDiv(months, sub.term_months)
             /\ IF pc' = "subs_contract"
                THEN /\ sub'.start_idx > sub.start_idx
                     /\ sub'.start_idx < months
                     /\ sub'.i = sub.i
                ELSE /\ pc' = "subs_customer"
                     /\ sub'.i = sub.i + 1
                     /\ \/ rows'[Len(rows')].status = "cancelled"
                        \/ end_idx > months
                        \/ end_idx = months]_vars
  /\ [](\A c \in 1..Len(customers_df) :
          ((pc \in {"subs_customer", "subs_contract"} /\ c <= sub.i)
           \/ (pc = "usage" /\ err = ""))
            => ContractsOf(ContractRowsSoFar, c) # {})

\* the generator has returned; a customer with a term of one month holds as
\* many contracts as the horizon has months, another customer's loop ended
\* with a churn
C29_Witness ==
  /\ pc = "usage"
  /\ \E c, e \in 1..Len(customers_df) :
       /\ Cardinality(ContractsOf(subscriptions_df, c)) = months
       /\ \E r \in 1..Len(subscriptions_df) :
            /\ subscriptions_df[r].customer_id = e
            /\ subscriptions_df[r].status = "cancelled"

\* C30: with non-negative onboarding lags the first start index of every
\* customer is at least the customer's created_month_index and inside the
\* calendar, every customer whose loop has ended has a contract, no contract
\* row starts before the customer's creation month and no usage row is dated
\* before it (months_since_start >= 0)
C30_NothingBeforeCreation ==
  /\ [][(pc = "subs_customer" /\ pc' = "subs_contract") =>
          /\ sub'.start_idx >= latents.created_month_index[sub.i + 1]
          /\ sub'.start_idx \in 0..(months - 1)]_vars
  /\ [](/\ \A r \in 1..Len(ContractRowsSoFar) :
             LET row == ContractRowsSoFar[r] IN
               /\ row.contract_start_date \in Range(calendar_dates)
               /\ row.contract_start_date >= customers_df[row.customer_id].created_date
               /\ MonthIndex(row.contract_start_date)
                    >= latents.created_month_index[row.customer_id]
        /\ \A c \in 1..Len(customers_df) :
             (pc \in {"usage", "usage_row", "pipeline"} /\ err = "")
               => \E r \in 1..Len(subscriptions_df) :
                    subscriptions_df[r].customer_id = c
        /\ \A u \in 1..Len(UsageRowsSoFar) :
             /\ UsageRowsSoFar[u].months_since_start >= 0
             /\ UsageRowsSoFar[u].month
                  >= customers_df[UsageRowsSoFar[u].customer_id].created_date)

\* the usage table is returned; an enterprise customer created in the last
\* calendar month, whose onboarding lag leads past the horizon, has its
\* contract and its usage row in that month
C30_Witness ==
  /\ pc = "pipeline"
  /\ \E c \in 1..Len(customers_df) :
       /\ customers_df[c].segment = "enterprise"
       /\ latents.created_month_index[c] = months - 1
       /\ \E r \in 1..Len(subscriptions_df) :
            /\ subscriptions_df[r].customer_id = c
            /\ subscriptions_df[r].contract_start_date = Last(calendar_dates)
       /\ \E u \in 1..Len(usage_df) :
            /\ usage_df[u].customer_id = c
            /\ usage_df[u].months_since_start = 0

====
